---- MODULE Spec2Model ----
(***************************************************************************)
(* Model of ting's asynchronous host name resolver                         *)
(* (trunk/src/ting/net/HostNameResolver.cpp): the caller entry points      *)
(* Resolve_ts, Cancel_ts and CleanUp, the LookupThread worker with its     *)
(* request indexes, and the three mutexes that order them.                 *)
(*                                                                         *)
(* Thread identities: App (0) is the application thread; the worker of the *)
(* LookupThread object in slot e is thread e.  All entry points take       *)
(* dns::mutex for their whole duration, so one application thread issuing  *)
(* calls in any order covers every serialisation of concurrent callers;    *)
(* the second source of calls is a completion callback that re-enters the  *)
(* resolver on the worker thread.  The non-Windows branches of the source  *)
(* are modelled (pthread mutexes, write-readiness taken from the socket).  *)
(***************************************************************************)
EXTENDS Integers, Sequences, FiniteSets, TLC

\* ---------------------------------------------------------------- bounds
\* number of LookupThread objects that can exist at the same time
MaxEngines == 2
\* largest transaction ID (ting::u16(-1) in the source)
MaxId == 7
\* largest tick value (ting::u32(-1) in the source)
TickMax == 2
\* largest timeoutMillis passed to Resolve_ts
MaxTimeout == 1

\* longest send list explored (entries left behind by deleted requests
\* would let it grow without limit)
MaxSendList == 2

\* host names have at most MaxHostLen bytes
MaxHostLen == 3

\* the highest tick of the range on which wait durations are computed
WaitTickMax == 15

\* caller handles (HostNameResolver objects)
Handles == {1, 2}
NoHandle == 0

App == 0
Engines == 1..MaxEngines
Threads == {App} \cup Engines
NoThread == 0

\* a mutex is Free or holds the thread that locked it
Free == -1

\* faulty variant of CanLock: a mutex that never makes its caller wait
NeverWaits(m) == TRUE

\* ting::mt::Mutex::Lock() on mutex m returns: no thread holds m
CanLock(m) == m = Free

\* the tick counter is not followed: any amount of time passes between two
\* steps, and a reading of the counter gives any value
Untracked == -1

Ids == 0..MaxId
Ticks == 0..TickMax
Timeouts == 0..MaxTimeout
\* the dnsIP argument of Resolve_ts: a server address is given or not
Servers == {FALSE}

D_DNSRecordA == 1
D_DNSRecordAAAA == 28

VARIABLES
    thread,     \* dns::thread: slot of the current LookupThread, or NoThread
    dnsMutex,   \* dns::mutex
    thr,        \* the LookupThread objects, by slot
    call,       \* per thread: the entry point it is executing
                \* (the history of a request is kept in its Resolver record:
                \* calls, cancelled, cancelRet, left, wrapped)
    clock,      \* what ting::timer::GetTicks() returns, or Untracked
    wire        \* one DNS query on its way: the request, the datagrams built
                \* for it and what the receive path made of the reply

vars == <<thread, dnsMutex, thr, call, clock, wire>>

\* ------------------------------------------------------------- containers
EmptyMap == [x \in {} |-> 0]

MapPut(m, k, v) == [x \in (DOMAIN m) \cup {k} |-> IF x = k THEN v ELSE m[x]]

MapErase(m, k) == [x \in (DOMAIN m) \ {k} |-> m[x]]

SetMin(S) == CHOOSE x \in S : \A y \in S : x <= y

SetMax(S) == CHOOSE x \in S : \A y \in S : x >= y

\* std::list::erase(iterator) with the iterator modelled as a 1-based position
SeqErase(s, k) == [i \in 1..(Len(s) - 1) |-> IF i < k THEN s[i] ELSE s[i + 1]]

\* a faulty variant of the insertion: the entry goes to the end of the map
TimeAppend(s, key, h) == Append(s, <<key, h>>)

\* std::multimap::insert: after every entry whose key is not greater
TimeInsert(s, key, h) ==
    LET n == Cardinality({i \in 1..Len(s) : s[i][1] <= key})
    IN  [i \in 1..(Len(s) + 1) |->
            IF i <= n THEN s[i] ELSE IF i = n + 1 THEN <<key, h>> ELSE s[i - 1]]

\* std::multimap::erase(iterator) of the entry that belongs to resolver h
TimeErase(s, h) == SelectSeq(s, LAMBDA x : x[2] # h)

\* --------------------------------------------------------- LookupThread
\* a slot that holds no object.  cbCalls, cbCancelled, cbCancelRet and cbLeft
\* are the history of the request whose callback is being delivered, cbId is
\* the transaction ID of the datagram that completed it (-1: none); failed
\* is the history of the worker: it has left Run() through one of the calls
\* of RemoveAllResolvers.
NoObject ==
    [state |-> "NONE", pc |-> "none",
     mutex |-> Free, completedMutex |-> Free,
     prevThread |-> NoThread, isExiting |-> TRUE, quitFlag |-> FALSE,
     lastTicksInFirstHalf |-> FALSE,
     byTime |-> <<<<>>, <<>>>>, sendList |-> <<>>,
     resolversMap |-> EmptyMap, idMap |-> EmptyMap, dns |-> FALSE,
     queue |-> {}, waitMode |-> "NONE",
     canWrite |-> FALSE,
     curTime |-> 0, cbH |-> NoHandle, cbRes |-> "NONE", cbNested |-> FALSE,
     site |-> "none", cbCalls |-> 0, cbCancelled |-> FALSE, cbCancelRet |-> FALSE,
     cbLeft |-> 0, failed |-> FALSE, cbId |-> -1, timeout |-> 0]

\* LookupThread::New(): a constructed thread object that was not started
NewThread == [NoObject EXCEPT !.state = "NEW", !.pc = "idle"]

FreeSlots == {e \in Engines : thr[e].state = "NONE"}

\* byTime[1] is the map timeMap1 points to, byTime[2] the one timeMap2 points
\* to; a Resolver's timeMap says which of the two pointers reaches its map
TimeMap1 == 1

TimeMap2 == 2

\* faulty variants of FindFreeId: the lowest ID whatever is in use, and the
\* search that stops before it looks for a gap between the used IDs
FirstId(idMap) == 0

FindFreeIdNoGaps(idMap) ==
    LET used == DOMAIN idMap
    IN  IF used = {} THEN 0
        ELSE IF SetMin(used) # 0 THEN SetMin(used) - 1
        ELSE IF SetMax(used) # MaxId THEN SetMax(used) + 1
        ELSE -1

\* LookupThread::FindFreeId; -1 stands for TooMuchRequestsExc
FindFreeId(idMap) ==
    LET used == DOMAIN idMap
        first == SetMin(used)
        last == SetMax(used)
        After(i) == SetMin({j \in used : j > i})
        gaps == {i \in used \ {last} : After(i) - i > 1}
    IN  IF used = {} THEN 0
        ELSE IF first # 0 THEN first - 1
        ELSE IF last # MaxId THEN last + 1
        ELSE IF gaps # {} THEN SetMin(gaps) + 1
        ELSE -1

\* erase position k from the send list; the iterators of the entries behind
\* it keep pointing at their own nodes
SendErase(T, k) ==
    [T EXCEPT !.sendList = SeqErase(T.sendList, k),
              !.resolversMap = [x \in DOMAIN T.resolversMap |->
                  IF T.resolversMap[x].sendIter > k
                  THEN [T.resolversMap[x] EXCEPT !.sendIter = @ - 1]
                  ELSE T.resolversMap[x]]]

\* the Resolver of h is deleted: the entries of the send list that still
\* point to it are dangling
Stale(s, h) == [i \in 1..Len(s) |-> IF s[i] = h THEN NoHandle ELSE s[i]]

\* faulty variant of RemoveResolver: the request stays in every index
KeepResolver(T, h) == T

\* LookupThread::RemoveResolver: the thread object after the call
RemoveResolver(T, h) ==
    IF h \notin DOMAIN T.resolversMap THEN T
    ELSE LET r == T.resolversMap[h]
             T1 == IF r.sendIter # 0 THEN SendErase(T, r.sendIter) ELSE T
         IN  [T1 EXCEPT !.resolversMap = MapErase(T1.resolversMap, h),
                        !.byTime[r.timeMap] = TimeErase(T1.byTime[r.timeMap], h),
                        !.idMap = MapErase(T1.idMap, r.id),
                        !.sendList = Stale(T1.sendList, h)]

\* the worker has left its loop for good, or has returned from Run()
Leaving(T) == T.state = "STOPPED" \/ (T.state = "RUNNING" /\ T.isExiting)

\* a faulty variant of PushMessage: the message is lost
Unposted(T, m) == T

\* MsgThread::PushMessage / PushPreallocatedQuitMessage; the queue of a thread
\* that has left its loop is not read again
Push(T, m) == IF Leaving(T) THEN T ELSE [T EXCEPT !.queue = @ \cup {m}]

\* ~LookupThread and the destruction of the members of the object in slot e
Destroy(TT, e) == [TT EXCEPT ![e] = NoObject]

\* ------------------------------------------------------------------ Init
\* no query is followed byte by byte
NoWire == [phase |-> "none"]

IdleCall == [pc |-> "idle", h |-> NoHandle,
             outMap |-> {}, outCb |-> {}, had |-> FALSE, res |-> "none"]

Init ==
    /\ thread = NoThread
    /\ dnsMutex = Free
    /\ thr = [e \in Engines |-> NoObject]
    /\ call = [t \in Threads |-> IdleCall]
    /\ clock = Untracked
    /\ wire = NoWire

\* ----------------------------------------------------------- history
\* the worker of e has removed a request and is inside OnCompleted_ts
InCallback(e) == thr[e].pc = "cb"

\* engines in which handle h has a request in the by-handle registry
InRegistry(h) == {e \in Engines : h \in DOMAIN thr[e].resolversMap}

\* engines whose worker is delivering the callback of a request of handle h
InFlight(h) == {e \in Engines : InCallback(e) /\ thr[e].cbH = h}

\* a Cancel_ts call with frame c returns: the requests it was called on that
\* still exist are marked
Returned(TT, c) ==
    [e \in Engines |->
        LET T1 == IF e \in c.outMap /\ c.h \in DOMAIN TT[e].resolversMap
                  THEN [TT[e] EXCEPT !.resolversMap[c.h].cancelRet = TRUE]
                  ELSE TT[e]
        IN  IF e \in c.outCb /\ T1.pc = "cb" /\ T1.cbH = c.h
            THEN [T1 EXCEPT !.cbCancelRet = TRUE] ELSE T1]

\* the request of h leaves the registry of e: the Cancel_ts calls in progress
\* on h follow it into the callback, or forget it
Forget(c, e, h, toCb) ==
    [t \in Threads |->
        IF c[t].h = h /\ e \in c[t].outMap
        THEN [c[t] EXCEPT !.outMap = @ \ {e},
                          !.outCb = IF toCb THEN @ \cup {e} ELSE @]
        ELSE c[t]]

ForgetCb(c, e) == [t \in Threads |-> [c[t] EXCEPT !.outCb = @ \ {e}]]

\* ------------------------------------------------------- entry points
\* a thread may enter the resolver: the application thread at any time, a
\* worker from inside OnCompleted_ts (at most one call per callback).  A
\* caller that finds a mutex free takes it in the step that brought it there;
\* one that finds it locked is blocked at the lock ("r_lock", "r_chk",
\* "c_lock", "c_rm", "c_wait", "cl_lock", "cl_join").
\* a call has just returned: its return is the next step of the system
Returning == \E t \in Threads : call[t].pc = "done"

CanCall(t) ==
    /\ call[t].pc = "idle"
    /\ t # App => (thr[t].pc = "cb" /\ ~thr[t].cbNested)

Entered(TT, t) ==
    IF t = App THEN TT ELSE [TT EXCEPT ![t].cbNested = TRUE]

\* the frame of a call with frame c that has returned r
Done(c, r) == [c EXCEPT !.pc = "done", !.res = r, !.outMap = {}, !.outCb = {}]

\* ting::timer::GetTicks(): the values a reading of the counter can give
Clock == IF clock = Untracked THEN Ticks ELSE {clock}

\* timeoutMillis of the Resolve_ts calls; when the ticks are followed one
\* more tick is explored, for a wrapped end time that is not tick 0
TimeoutArgs == IF clock = Untracked THEN Timeouts ELSE 0 .. MaxTimeout + 1

Half == TickMax \div 2

IsFirstHalf(t) == t < Half

\* HostNameResolver::Resolve_ts, lines 980-982: the host name is too long
ResolveTooLong(t) ==
    /\ ~Returning
    /\ UNCHANGED <<clock, wire>>
    /\ CanCall(t)
    /\ call' = [call EXCEPT ![t] = Done(IdleCall, "DomainNameTooLongExc")]
    /\ thr' = Entered(thr, t)
    /\ UNCHANGED <<thread, dnsMutex>>

\* line 984: the caller blocks on dns::mutex
ResolveCall(t) ==
    /\ ~Returning
    /\ UNCHANGED <<clock, wire>>
    /\ CanCall(t)
    /\ dnsMutex # Free
    /\ \E h \in Handles :
          call' = [call EXCEPT ![t] = [IdleCall EXCEPT !.pc = "r_lock", !.h = h]]
    /\ thr' = Entered(thr, t)
    /\ UNCHANGED <<thread, dnsMutex>>

\* lines 1012-1088: the new Resolver entered into every index of thread object T
InsertResolver(T, h, id, curTime, timeout, ip) ==
    LET endTime == (curTime + timeout) % (TickMax + 1)
        tm == IF endTime < curTime THEN TimeMap2 ELSE TimeMap1
        r == [hnr |-> h, recordType |-> D_DNSRecordAAAA, timeMap |-> tm,
              key |-> endTime, id |-> id, sendIter |-> Len(T.sendList) + 1,
              dns |-> ip, calls |-> 0, cancelled |-> FALSE, cancelRet |-> FALSE,
              left |-> IF clock = Untracked THEN 0 ELSE timeout,
              wrapped |-> clock # Untracked /\ endTime < curTime]
        T1 == [T EXCEPT !.idMap = MapPut(T.idMap, id, h),
                        !.byTime[tm] = TimeInsert(T.byTime[tm], endTime, h),
                        !.sendList = Append(T.sendList, h),
                        !.resolversMap = MapPut(T.resolversMap, h, r)]
    IN  IF Len(T1.sendList) = 1 THEN Push(T1, "StartSending") ELSE T1

\* lines 1090-1096: start the thread that was created by this call
StartThread(T, curTime) ==
    [T EXCEPT !.lastTicksInFirstHalf = IsFirstHalf(curTime),
              !.state = "RUNNING", !.pc = "start", !.isExiting = FALSE]

\* lines 1036-1103 for every clock reading, timeout and server argument: the
\* thread object T after the request of h was added (and T was started)
Accepted(T, h, needStartTheThread) ==
    {IF needStartTheThread
     THEN StartThread(InsertResolver(T, h, FindFreeId(T.idMap), x[1], x[2], x[3]),
                      x[1])
     ELSE InsertResolver(T, h, FindFreeId(T.idMap), x[1], x[2], x[3]) :
        x \in Clock \X TimeoutArgs \X Servers}

\* lines 986-991 and 1001-1007 followed by 1036-1103: a new thread object is
\* created after previous thread p, given the request of h and started
ResolveOnNew(t, h, p) ==
    /\ FreeSlots # {}
    /\ \E T2 \in Accepted([NewThread EXCEPT !.prevThread = p], h, TRUE) :
          thr' = [Entered(thr, t) EXCEPT ![SetMin(FreeSlots)] = T2]
    /\ thread' = SetMin(FreeSlots)
    /\ call' = [call EXCEPT ![t] = Done([IdleCall EXCEPT !.h = h], "accepted")]
    /\ dnsMutex' = Free

\* lines 992-1008, under the current thread's mutex
ResolveChecked(t, h) ==
    IF h \in DOMAIN thr[thread].resolversMap
    THEN /\ call' = [call EXCEPT ![t] =
                        Done([IdleCall EXCEPT !.h = h], "AlreadyInProgressExc")]
         /\ dnsMutex' = Free
         /\ thr' = Entered(thr, t)
         /\ UNCHANGED thread
    ELSE IF thr[thread].isExiting
    THEN ResolveOnNew(t, h, thread)
    ELSE /\ call' = [call EXCEPT ![t] = [IdleCall EXCEPT !.pc = "r_ins", !.h = h]]
         /\ dnsMutex' = t
         /\ thr' = Entered(thr, t)
         /\ UNCHANGED thread

\* lines 984-992: dns::mutex is taken; with no thread object one is created
ResolveLock(t) ==
    /\ ~Returning
    /\ UNCHANGED <<clock, wire>>
    /\ dnsMutex = Free
    /\ \E h \in Handles :
          /\ \/ call[t].pc = "r_lock" /\ h = call[t].h
             \/ CanCall(t)
          /\ IF thread = NoThread THEN ResolveOnNew(t, h, NoThread)
             ELSE IF CanLock(thr[thread].mutex) THEN ResolveChecked(t, h)
             ELSE /\ call' = [call EXCEPT ![t] =
                                 [IdleCall EXCEPT !.pc = "r_chk", !.h = h]]
                  /\ dnsMutex' = t
                  /\ thr' = Entered(thr, t)
                  /\ UNCHANGED thread

\* line 993: the current thread's mutex is taken after the wait for it
ResolveCheck(t) ==
    /\ ~Returning
    /\ UNCHANGED <<clock, wire>>
    /\ call[t].pc = "r_chk"
    /\ CanLock(thr[thread].mutex)
    /\ ResolveChecked(t, call[t].h)

\* faulty variant of Refused: the request was queued for sending before
\* FindFreeId threw
RefusedQueued(T, h) == [T EXCEPT !.sendList = Append(@, h)]

\* lines 1036-1040 when FindFreeId throws: the Resolver is owned by the local
\* Ptr r alone and is deleted with it; thread object T is as it was
Refused(T, h) == T

\* lines 1036-1104: under the current thread's mutex, taken again
ResolveInsert(t) ==
    /\ ~Returning
    /\ UNCHANGED <<clock, wire>>
    /\ call[t].pc = "r_ins"
    /\ CanLock(thr[thread].mutex)
    /\ Len(thr[thread].sendList) < MaxSendList
    /\ IF FindFreeId(thr[thread].idMap) = -1
       THEN /\ call' = [call EXCEPT ![t] = Done(call[t], "TooMuchRequestsExc")]
            /\ thr' = [thr EXCEPT ![thread] = Refused(thr[thread], call[t].h)]
       ELSE /\ \E T2 \in Accepted(thr[thread], call[t].h, FALSE) :
                  thr' = [thr EXCEPT ![thread] = T2]
            /\ call' = [call EXCEPT ![t] = Done(call[t], "accepted")]
    /\ dnsMutex' = Free
    /\ UNCHANGED thread

\* the frame of a Cancel_ts call on h: the request h has outstanding when the
\* call is made, or, when it has none, its callback in flight
CancelFrame(h) ==
    [IdleCall EXCEPT !.pc = "c_lock", !.h = h, !.outMap = InRegistry(h),
                     !.outCb = IF InRegistry(h) = {} THEN InFlight(h) ELSE {}]

\* HostNameResolver::Cancel_ts, line 1109: the caller blocks on dns::mutex
CancelCall(t) ==
    /\ ~Returning
    /\ UNCHANGED <<clock, wire>>
    /\ CanCall(t)
    /\ dnsMutex # Free
    /\ \E h \in Handles : call' = [call EXCEPT ![t] = CancelFrame(h)]
    /\ thr' = Entered(thr, t)
    /\ UNCHANGED <<thread, dnsMutex>>

\* lines 1117-1121: the thread object after the removal
CancelRemove(T, h) ==
    LET T1 == RemoveResolver(T, h)
    IN  IF DOMAIN T1.resolversMap = {} THEN Push(T1, "Quit") ELSE T1

\* history: Cancel_ts returned true for the request of h
MarkCancelled(T, h) ==
    IF h \in DOMAIN T.resolversMap
    THEN [T EXCEPT !.resolversMap[h].cancelled = TRUE] ELSE T

\* lines 1115-1131, under the current thread's mutex, for the call with
\* frame c: the removal, then the return or the wait for completedMutex
CancelRemoved(t, c) ==
    LET TT == Entered(thr, t)
        ret == c.h \in DOMAIN TT[thread].resolversMap
        c1 == [c EXCEPT !.had = InRegistry(c.h) # {}]
        T1 == CancelRemove(TT[thread], c.h)
    IN  /\ IF ret
           THEN /\ thr' = Returned([TT EXCEPT ![thread] = MarkCancelled(T1, c.h)], c)
                /\ call' = [Forget(call, thread, c.h, FALSE) EXCEPT
                                ![t] = Done(c1, "true")]
                /\ dnsMutex' = Free
           ELSE IF T1.completedMutex = Free
           THEN /\ thr' = Returned([TT EXCEPT ![thread] = T1], c)
                /\ call' = [call EXCEPT ![t] = Done(c1, "false")]
                /\ dnsMutex' = Free
           ELSE /\ thr' = [TT EXCEPT ![thread] = [T1 EXCEPT !.mutex = t]]
                /\ call' = [call EXCEPT ![t] = [c1 EXCEPT !.pc = "c_wait"]]
                /\ dnsMutex' = t
        /\ UNCHANGED thread

\* lines 1109-1115: dns::mutex is taken
CancelLocks(t) ==
    /\ dnsMutex = Free
    /\ \E c \in {call[t]} \cup {CancelFrame(h) : h \in Handles} :
          /\ \/ call[t].pc = "c_lock" /\ c = call[t]
             \/ CanCall(t) /\ c # call[t]
          /\ IF thread = NoThread
             THEN /\ call' = [call EXCEPT ![t] = Done(c, "false")]
                  /\ thr' = Returned(Entered(thr, t), c)
                  /\ UNCHANGED <<thread, dnsMutex>>
             ELSE IF CanLock(thr[thread].mutex) THEN CancelRemoved(t, c)
             ELSE /\ call' = [call EXCEPT ![t] = [c EXCEPT !.pc = "c_rm"]]
                  /\ thr' = Entered(thr, t)
                  /\ dnsMutex' = t
                  /\ UNCHANGED thread

CancelLock(t) ==
    /\ ~Returning
    /\ UNCHANGED <<clock, wire>>
    /\ CancelLocks(t)

\* line 1115: the current thread's mutex is taken after the wait for it
CancelRms(t) ==
    /\ call[t].pc = "c_rm"
    /\ CanLock(thr[thread].mutex)
    /\ CancelRemoved(t, call[t])

CancelRm(t) ==
    /\ ~Returning
    /\ UNCHANGED <<clock, wire>>
    /\ CancelRms(t)

\* lines 1123-1131: completedMutex is taken after the wait for a callback in
\* flight, and released; false is returned
CancelWait(t) ==
    /\ ~Returning
    /\ UNCHANGED <<clock, wire>>
    /\ call[t].pc = "c_wait"
    /\ thr[thread].completedMutex = Free
    /\ thr' = Returned([thr EXCEPT ![thread].mutex = Free], call[t])
    /\ dnsMutex' = Free
    /\ call' = [call EXCEPT ![t] = Done(call[t], "false")]
    /\ UNCHANGED thread

\* HostNameResolver::CleanUp is called by the application when it has no
\* request outstanding
CanCleanUp(t) ==
    /\ t = App
    /\ CanCall(t)
    /\ \A e \in Engines : DOMAIN thr[e].resolversMap = {}

\* line 1138: the caller blocks on dns::mutex
CleanUpCall(t) ==
    /\ ~Returning
    /\ UNCHANGED <<clock, wire>>
    /\ CanCleanUp(t)
    /\ dnsMutex # Free
    /\ call' = [call EXCEPT ![t] = [IdleCall EXCEPT !.pc = "cl_lock"]]
    /\ UNCHANGED <<thread, dnsMutex, thr>>

\* lines 1138-1147: dns::mutex is taken, the quit message is pushed; Join()
\* returns at once when the worker has stopped
CleanUpLock(t) ==
    /\ ~Returning
    /\ UNCHANGED <<clock, wire>>
    /\ call[t].pc = "cl_lock" \/ CanCleanUp(t)
    /\ dnsMutex = Free
    /\ IF thread = NoThread
       THEN /\ call' = [call EXCEPT ![t] = Done(IdleCall, "void")]
            /\ UNCHANGED <<thr, dnsMutex, thread>>
       ELSE IF thr[thread].state \in {"NEW", "STOPPED"}
       THEN /\ call' = [call EXCEPT ![t] = Done(IdleCall, "void")]
            /\ thr' = Destroy(thr, thread)
            /\ thread' = NoThread
            /\ UNCHANGED dnsMutex
       ELSE /\ call' = [call EXCEPT ![t] = [IdleCall EXCEPT !.pc = "cl_join"]]
            /\ thr' = [thr EXCEPT ![thread] = Push(thr[thread], "Quit")]
            /\ dnsMutex' = t
            /\ UNCHANGED thread

\* lines 1142-1147: Join() returns once the worker has stopped
CleanUpJoin(t) ==
    /\ ~Returning
    /\ UNCHANGED <<clock, wire>>
    /\ call[t].pc = "cl_join"
    /\ thr[thread].state \in {"NEW", "STOPPED"}
    /\ thr' = Destroy(thr, thread)
    /\ thread' = NoThread
    /\ dnsMutex' = Free
    /\ call' = [call EXCEPT ![t] = Done(IdleCall, "void")]

\* the entry point has returned to its caller
Return(t) ==
    /\ call[t].pc = "done"
    /\ UNCHANGED <<clock, wire>>
    /\ call' = [call EXCEPT ![t] = IdleCall]
    /\ UNCHANGED <<thread, dnsMutex, thr>>

\* ------------------------------------------------------- worker thread
\* what ParseReplyFromDNS can return
Results == {"OK", "NO_SUCH_HOST", "DNS_ERROR"}

\* a received datagram: its length reaches the host name or not, its ID, its
\* question names the host of the request with that ID or not, and what
\* ParseReplyFromDNS makes of it
Datagrams == [long : BOOLEAN, id : Ids, hostOk : BOOLEAN, res : Results]

\* faulty variant of Matches: the question of the datagram is not compared
\* with the host name of the request
MatchesId(T, d) == d.long /\ d.id \in DOMAIN T.idMap

\* lines 750-760: the datagram is taken as the reply to a request
Matches(T, d) == d.long /\ d.id \in DOMAIN T.idMap /\ d.hostOk

\* faulty variant of Addressee: the first request of the registry, whatever
\* ID the datagram carries
FirstRequest(T, d) ==
    IF DOMAIN T.resolversMap = {} THEN NoHandle ELSE SetMin(DOMAIN T.resolversMap)

\* lines 751-755: i->second->hnr, the request a matching datagram is for
Addressee(T, d) == T.idMap[d.id]

\* the thread objects are followed up to their destructor
ToDestructor == wire.phase = "destructor"

\* the loop has been left: the readiness of the socket, the wait set, the
\* queue, the clock variables and the server address of the thread object are
\* not read again; the send list is read again by RemoveResolver and by the
\* destructor only, and is kept where the objects are followed that far
LeaveLoop(T) ==
    [T EXCEPT !.queue = {}, !.waitMode = "NONE", !.canWrite = FALSE,
              !.curTime = 0, !.lastTicksInFirstHalf = FALSE, !.dns = FALSE,
              !.quitFlag = FALSE,
              !.sendList = IF ToDestructor THEN @ ELSE <<>>,
              !.resolversMap = [x \in DOMAIN T.resolversMap |->
                  [T.resolversMap[x] EXCEPT
                      !.sendIter = IF ToDestructor THEN @ ELSE 0,
                      !.dns = FALSE, !.recordType = D_DNSRecordAAAA]]]

\* Run() has returned
Stopped(T) == [LeaveLoop(T) EXCEPT !.state = "STOPPED", !.pc = "stopped",
                                   !.site = "none"]

\* one quarter of a tick range that ends at max, ting::u32(-1) / 4 of line 897
Quarter(max) == max \div 4

\* ting::util::ClampTop
ClampTop(v, top) == IF v > top THEN top ELSE v

\* the value of timeout after line 893 when timeMap1 is empty: begin() is
\* end() and the key read through it is whatever lies in the map's header
Indeterminate == -1

\* lines 893 and 897: the wait duration on thread object T, whose timeMap1
\* was found to hold no key up to curTime, for ticks that wrap after max
WaitDuration(T, max) ==
    LET tm == T.byTime[TimeMap1]
    IN  IF tm = <<>> THEN Indeterminate
        ELSE ClampTop((tm[1][1] - T.curTime) % (max + 1), Quarter(max))

\* the worker ends with an access to freed memory
Crashed(T) == [T EXCEPT !.pc = "crashed"]

\* RemoveResolver followed by CallCallback up to the call of OnCompleted_ts
\* (lines 304-306) on worker e: completedMutex is taken, the thread's mutex is
\* released (unlocking it when it is not held leaves a pthread mutex unlocked)
CallCallback(e, T, h, res, site) ==
    IF h \notin DOMAIN T.resolversMap THEN Crashed(T)
    ELSE LET r == T.resolversMap[h]
             n == IF r.calls < 2 THEN r.calls + 1 ELSE 2
             T1 == RemoveResolver(T, h)
             T2 == IF h \in DOMAIN T1.resolversMap
                   THEN [T1 EXCEPT !.resolversMap[h].calls = n] ELSE T1
         IN  [T2 EXCEPT !.pc = "cb", !.completedMutex = e, !.mutex = Free,
                        !.cbH = h, !.cbRes = res, !.cbNested = FALSE,
                        !.site = site, !.cbCalls = n,
                        !.cbCancelled = r.cancelled, !.cbCancelRet = r.cancelRet,
                        !.cbLeft = r.left]

\* LookupThread::RemoveAllResolvers up to its next callback, or its return
\* (pc "ra_done")
RemoveAllResolvers(e, T) ==
    IF DOMAIN T.resolversMap # {}
    THEN CallCallback(e, T, SetMin(DOMAIN T.resolversMap), "ERROR", "ra")
    ELSE [T EXCEPT !.pc = "ra_done"]

\* lines 735-739, 792-796, 837-841: fail every request and leave the loop;
\* the guard of the loop body releases the thread's mutex
FailAll(e, T) ==
    LET T1 == RemoveAllResolvers(e, [LeaveLoop(T) EXCEPT !.isExiting = TRUE,
                                                         !.failed = TRUE])
    IN  IF T1.pc = "ra_done" THEN [Stopped(T1) EXCEPT !.mutex = Free] ELSE T1

\* lines 720-723: the same when the socket could not be opened; the thread's
\* mutex is not touched, dns::mutex is released by the guard on return
FailAllOpen(e, T) ==
    LET T1 == RemoveAllResolvers(e, [LeaveLoop(T) EXCEPT !.isExiting = TRUE,
                                                         !.failed = TRUE])
    IN  IF T1.pc = "ra_done" THEN Stopped(T1) ELSE T1

\* lines 869-893: the timeout loop and the end of the locked section
TimeoutLoop(e, T) ==
    LET tm == T.byTime[TimeMap1]
    IN  IF tm # <<>> /\ tm[1][1] <= T.curTime
        THEN CallCallback(e, T, tm[1][2], "TIMEOUT", "toloop")
        ELSE IF DOMAIN T.resolversMap = {}
        THEN [Stopped(T) EXCEPT !.isExiting = TRUE, !.mutex = Free]
        ELSE IF clock = Untracked
        THEN [T EXCEPT !.pc = "wait", !.mutex = Free, !.curTime = 0]
        ELSE [T EXCEPT !.pc = "wait", !.mutex = Free,
                       !.timeout = WaitDuration(T, TickMax)]

\* a faulty variant of the swap: the maps stay as they are
NoSwap(T) == T

\* std::swap(timeMap1, timeMap2)
SwapTimeMaps(T) ==
    [T EXCEPT !.byTime = <<T.byTime[2], T.byTime[1]>>,
              !.resolversMap = [x \in DOMAIN T.resolversMap |->
                  [T.resolversMap[x] EXCEPT !.timeMap = 3 - @]]]

\* lines 853-867: the clock has wrapped; expire all of timeMap1, then swap
WarpLoop(e, T) ==
    LET tm == T.byTime[TimeMap1]
    IN  IF tm # <<>>
        THEN CallCallback(e, T, tm[1][2], "TIMEOUT", "warploop")
        ELSE TimeoutLoop(e, [SwapTimeMaps(T) EXCEPT
                                !.lastTicksInFirstHalf = IsFirstHalf(T.curTime)])

\* lines 849-893 with the clock reading cur
TimePhase(e, T, cur) ==
    IF IsFirstHalf(cur) /\ ~T.lastTicksInFirstHalf
    THEN WarpLoop(e, [T EXCEPT !.curTime = cur])
    ELSE TimeoutLoop(e, [T EXCEPT !.curTime = cur,
                                  !.lastTicksInFirstHalf = IsFirstHalf(cur)])

\* lines 805-808: enter the sending loop when the socket can be written
SendPhase(e, T, cur) ==
    IF T.canWrite THEN [T EXCEPT !.pc = "sendloop"] ELSE TimePhase(e, T, cur)

\* lines 843-847 and on: the sending loop is left
AfterSend(e, T, cur) ==
    TimePhase(e, IF T.sendList = <<>> THEN [T EXCEPT !.waitMode = "READ"] ELSE T,
              cur)

\* the thread objects that the code that leads to T can leave: a key read
\* through end() at line 893 is any tick up to max, clamped at line 897
Outcomes(T, max) ==
    IF T.pc = "wait" /\ T.timeout = Indeterminate
    THEN {[T EXCEPT !.timeout = ClampTop(t, Quarter(max))] : t \in 0 .. max}
    ELSE {T}

\* a step of worker e that leaves its thread object as T2; a request taken
\* for its callback is followed there by the Cancel_ts calls in progress on it
WorkerStep(e, T2) ==
    /\ \E T3 \in Outcomes(T2, TickMax) : thr' = [thr EXCEPT ![e] = T3]
    /\ call' = IF T2.pc = "cb" THEN Forget(call, e, T2.cbH, TRUE) ELSE call
    /\ dnsMutex' = IF dnsMutex = e /\ T2.pc = "stopped" THEN Free ELSE dnsMutex
    /\ UNCHANGED thread

\* the clock readings that matter to the code run next on thread object T
\* (every reading gives the same result when the send loop comes first)
Readings(T) == IF T.canWrite THEN {0} ELSE Clock

\* Run(), lines 699-712 without a previous thread: read the DNS server
\* address (InitDNS leaves it unset when it finds none)
Start(e) ==
    /\ ~Returning
    /\ UNCHANGED <<clock, wire>>
    /\ thr[e].pc = "start"
    /\ thr[e].prevThread = NoThread
    /\ \E d \in BOOLEAN : thr' = [thr EXCEPT ![e].dns = d, ![e].pc = "open"]
    /\ UNCHANGED <<thread, dnsMutex, call>>

\* the slot of a thread object is only its name: when the previous object p
\* is destroyed the object in slot e takes its slot
Renamed(S, e, p) == {IF x = e THEN p ELSE x : x \in S \ {p}}

\* Run(), lines 699-712 with a previous thread: join it, destroy it, then
\* read the DNS server address
StartAfter(e) ==
    /\ ~Returning
    /\ UNCHANGED <<clock, wire>>
    /\ thr[e].pc = "start"
    /\ thr[e].prevThread # NoThread
    /\ LET p == thr[e].prevThread
       IN  /\ thr[p].state \in {"NEW", "STOPPED"}
           /\ \E d \in BOOLEAN :
                 thr' = [thr EXCEPT
                    ![p] = [thr[e] EXCEPT !.prevThread = NoThread, !.dns = d,
                                          !.pc = "open"],
                    ![e] = NoObject]
           /\ thread' = IF thread = e THEN p ELSE thread
           /\ call' = [t \in Threads |->
                 [call[t] EXCEPT !.outMap = Renamed(@, e, p),
                                 !.outCb = Renamed(@, e, p)]]
    /\ UNCHANGED dnsMutex

\* lines 715-728: the socket opens; it is added to the wait set for READ
OpenSocket(e) ==
    /\ ~Returning
    /\ UNCHANGED <<clock, wire>>
    /\ thr[e].pc = "open"
    /\ CanLock(dnsMutex)
    /\ thr' = [thr EXCEPT ![e].pc = "loop", ![e].waitMode = "READ"]
    /\ UNCHANGED <<thread, dnsMutex, call>>

\* lines 715-723: socket.Open() throws; dns::mutex stays locked until Run()
\* returns
OpenFails(e) ==
    /\ ~Returning
    /\ UNCHANGED <<clock, wire>>
    /\ thr[e].pc = "open"
    /\ CanLock(dnsMutex)
    /\ LET T2 == FailAllOpen(e, thr[e])
       IN  /\ thr' = [thr EXCEPT ![e] = T2]
           /\ call' = IF T2.pc = "cb" THEN Forget(call, e, T2.cbH, TRUE) ELSE call
           /\ dnsMutex' = IF T2.pc = "stopped" THEN Free ELSE e
    /\ UNCHANGED thread

\* lines 730-739: the loop body takes the thread's mutex and finds the
\* error condition of the socket set
LoopError(e) ==
    /\ ~Returning
    /\ UNCHANGED <<clock, wire>>
    /\ thr[e].pc = "loop"
    /\ CanLock(thr[e].mutex)
    /\ WorkerStep(e, FailAll(e, [thr[e] EXCEPT !.mutex = e]))

\* lines 730-741, 805: the loop body takes the thread's mutex; the socket has
\* no error and nothing to read
LoopLock(e) ==
    /\ ~Returning
    /\ UNCHANGED <<clock, wire>>
    /\ thr[e].pc = "loop"
    /\ CanLock(thr[e].mutex)
    /\ \E cur \in Readings(thr[e]) :
          WorkerStep(e, SendPhase(e, [thr[e] EXCEPT !.mutex = e], cur))

\* lines 741-760: the socket can be read; a datagram that is too short, has
\* an unknown ID or names another host is dropped (what follows is the same
\* for each of them)
Ignores(e, d) ==
    /\ thr[e].pc = "loop"
    /\ CanLock(thr[e].mutex)
    /\ ~Matches(thr[e], d)
    /\ \E cur \in Readings(thr[e]) :
          /\ WorkerStep(e, SendPhase(e, [thr[e] EXCEPT !.mutex = e], cur))

RecvIgnore(e) ==
    /\ ~Returning
    /\ UNCHANGED <<clock, wire>>
    /\ Ignores(e, CHOOSE d \in Datagrams : ~Matches(thr[e], d))

\* faulty variant of Fallback: the request is taken out of its time map too
FallbackUntimed(T, h) ==
    [T EXCEPT !.resolversMap[h].recordType = D_DNSRecordA,
              !.resolversMap[h].sendIter = Len(T.sendList) + 1,
              !.sendList = Append(T.sendList, h),
              !.byTime = <<TimeErase(T.byTime[1], h), TimeErase(T.byTime[2], h)>>]

\* lines 764-777: the thread object after the switch of request h to record A
Fallback(T, h) ==
    LET T1 == [T EXCEPT !.resolversMap[h].recordType = D_DNSRecordA,
                        !.resolversMap[h].sendIter = Len(T.sendList) + 1,
                        !.sendList = Append(T.sendList, h)]
    IN  IF Len(T1.sendList) = 1 THEN [T1 EXCEPT !.waitMode = "RW"] ELSE T1

\* lines 761-777: NO_SUCH_HOST for an AAAA query
FallsBack(e, d) ==
    /\ thr[e].pc = "loop"
    /\ CanLock(thr[e].mutex)
    /\ \E cur \in Readings(thr[e]) :
          /\ Matches(thr[e], d)
          /\ d.res = "NO_SUCH_HOST"
          /\ Len(thr[e].sendList) < MaxSendList
          /\ Addressee(thr[e], d) \in DOMAIN thr[e].resolversMap
          /\ thr[e].resolversMap[Addressee(thr[e], d)].recordType = D_DNSRecordAAAA
          /\ WorkerStep(e, SendPhase(e,
                Fallback([thr[e] EXCEPT !.mutex = e], Addressee(thr[e], d)), cur))

RecvFallback(e) ==
    /\ ~Returning
    /\ UNCHANGED <<clock, wire>>
    /\ \E d \in Datagrams : FallsBack(e, d)

\* lines 778-787: any other reply completes the request
Completes(e, d) ==
    /\ thr[e].pc = "loop"
    /\ CanLock(thr[e].mutex)
    /\ LET h == Addressee(thr[e], d)
           T2 == CallCallback(e, [thr[e] EXCEPT !.mutex = e], h, d.res, "send")
       IN  /\ Matches(thr[e], d)
           /\ ~(/\ d.res = "NO_SUCH_HOST"
                /\ h \in DOMAIN thr[e].resolversMap
                /\ thr[e].resolversMap[h].recordType = D_DNSRecordAAAA)
           /\ WorkerStep(e, IF T2.pc = "cb" THEN [T2 EXCEPT !.cbId = d.id]
                             ELSE T2)

RecvComplete(e) ==
    /\ ~Returning
    /\ UNCHANGED <<clock, wire>>
    /\ \E d \in Datagrams : Completes(e, d)

\* lines 741-745, 792-796: the socket can be read and Recv throws
RecvThrows(e) ==
    /\ ~Returning
    /\ UNCHANGED <<clock, wire>>
    /\ thr[e].pc = "loop"
    /\ CanLock(thr[e].mutex)
    /\ WorkerStep(e, FailAll(e, [thr[e] EXCEPT !.mutex = e]))

\* lines 815-819: the server address a request is sent to
DnsOf(T, h) == T.resolversMap[h].dns \/ T.dns

\* lines 815-826: the head of the send list has been handed to the socket
PopSent(T) ==
    LET h == T.sendList[1]
    IN  SendErase([T EXCEPT !.resolversMap[h].sendIter = 0,
                            !.resolversMap[h].dns = DnsOf(T, h),
                            !.canWrite = FALSE], 1)

SendOne(e) ==
    /\ ~Returning
    /\ UNCHANGED <<clock, wire>>
    /\ thr[e].pc = "sendloop"
    /\ thr[e].sendList # <<>>
    /\ thr[e].sendList[1] # NoHandle
    /\ DnsOf(thr[e], thr[e].sendList[1])
    /\ WorkerStep(e, PopSent(thr[e]))

\* lines 820-823: the socket takes nothing; the sending loop is left
SendRefused(e) ==
    /\ ~Returning
    /\ UNCHANGED <<clock, wire>>
    /\ thr[e].pc = "sendloop"
    /\ thr[e].sendList # <<>>
    /\ thr[e].sendList[1] # NoHandle
    /\ DnsOf(thr[e], thr[e].sendList[1])
    /\ \E cur \in Clock :
          WorkerStep(e, AfterSend(e,
              [thr[e] EXCEPT !.resolversMap[thr[e].sendList[1]].dns = TRUE,
                             !.canWrite = FALSE], cur))

\* lines 827-833: no server address is known
SendNoServer(e) ==
    /\ ~Returning
    /\ UNCHANGED <<clock, wire>>
    /\ thr[e].pc = "sendloop"
    /\ thr[e].sendList # <<>>
    /\ thr[e].sendList[1] # NoHandle
    /\ ~DnsOf(thr[e], thr[e].sendList[1])
    /\ WorkerStep(e, CallCallback(e, thr[e], thr[e].sendList[1], "ERROR", "sendloop"))

\* lines 836-841: Send throws
SendThrows(e) ==
    /\ ~Returning
    /\ UNCHANGED <<clock, wire>>
    /\ thr[e].pc = "sendloop"
    /\ thr[e].sendList # <<>>
    /\ thr[e].sendList[1] # NoHandle
    /\ DnsOf(thr[e], thr[e].sendList[1])
    /\ WorkerStep(e, FailAll(e, [thr[e] EXCEPT !.canWrite = FALSE]))

\* lines 812, 843-847: the send list is empty
SendDrained(e) ==
    /\ ~Returning
    /\ UNCHANGED <<clock, wire>>
    /\ thr[e].pc = "sendloop"
    /\ thr[e].sendList = <<>>
    /\ \E cur \in Clock : WorkerStep(e, AfterSend(e, thr[e], cur))

\* lines 814-833 when the head of the send list points to a deleted Resolver.
\* What the freed memory reads as is not defined: the worker crashes; or the
\* memory still reads as a request with a server address, which is sent and
\* popped; or it reads as a request of handle h, either the Resolver h has now
\* (the memory was used again) or the deleted one with no server address, and
\* RemoveResolver(r->hnr) finds the request h has now.
Dangling(e, T) ==
    {Crashed(T), SendErase([T EXCEPT !.canWrite = FALSE], 1)}
    \cup {IF DnsOf(T, h)
          THEN SendErase([T EXCEPT !.resolversMap[h].sendIter = 0,
                                   !.resolversMap[h].dns = TRUE,
                                   !.canWrite = FALSE], 1)
          ELSE CallCallback(e, T, h, "ERROR", "sendloop") :
             h \in DOMAIN T.resolversMap}
    \cup {CallCallback(e, T, h, "ERROR", "sendloop") : h \in DOMAIN T.resolversMap}

SendDangling(e) ==
    /\ ~Returning
    /\ UNCHANGED <<clock, wire>>
    /\ thr[e].pc = "sendloop"
    /\ thr[e].sendList # <<>>
    /\ thr[e].sendList[1] = NoHandle
    /\ \E T2 \in Dangling(e, thr[e]) : WorkerStep(e, T2)

\* MsgThread messages: StartSendingMessage::Handle, QuitMessage::Handle
HandleMessages(T) ==
    LET T1 == IF "StartSending" \in T.queue THEN [T EXCEPT !.waitMode = "RW"] ELSE T
    IN  [T1 EXCEPT !.queue = {}, !.quitFlag = "Quit" \in T.queue, !.pc = "loop",
                   !.curTime = 0, !.timeout = 0]

\* lines 909-923: WaitWithTimeout returns on its timeout or with what is
\* ready (the socket for writing only when it is waited for), the queued
\* messages are handled, and the loop ends when one of them was the quit
\* message.  Readiness for reading and the error condition are consumed by
\* the next loop body alone; LoopError and the Recv actions stand for them.
Wait(e) ==
    /\ ~Returning
    /\ UNCHANGED <<clock, wire>>
    /\ thr[e].pc = "wait"
    /\ \E wr \in BOOLEAN :
          /\ wr => thr[e].waitMode = "RW"
          /\ LET T2 == HandleMessages([thr[e] EXCEPT !.canWrite = @ \/ wr])
             IN  WorkerStep(e, IF T2.quitFlag THEN Stopped(T2) ELSE T2)

\* the code after the call of CallCallback at the given site, with the
\* thread's mutex held again
Resume(e, T, site, cur) ==
    IF site = "send" THEN SendPhase(e, T, cur)
    ELSE IF site = "sendloop" THEN [T EXCEPT !.pc = "sendloop"]
    ELSE IF site = "warploop" THEN WarpLoop(e, T)
    ELSE IF site = "toloop" THEN TimeoutLoop(e, T)
    ELSE IF dnsMutex = e THEN FailAllOpen(e, T)
    ELSE FailAll(e, T)

\* the end of the callback in the thread object
EndCallback(T) ==
    [T EXCEPT !.completedMutex = Free, !.cbH = NoHandle, !.cbRes = "NONE",
              !.cbNested = FALSE, !.cbCalls = 0, !.cbCancelled = FALSE,
              !.cbCancelRet = FALSE, !.cbLeft = 0, !.cbId = -1]

\* lines 306-308: OnCompleted_ts returns, completedMutex is released; the
\* thread's mutex is held by another thread and the worker blocks on it
CallbackReturn(e) ==
    /\ ~Returning
    /\ UNCHANGED <<clock, wire>>
    /\ thr[e].pc = "cb"
    /\ call[e].pc = "idle"
    /\ ~CanLock(thr[e].mutex)
    /\ thr' = [thr EXCEPT ![e] = [EndCallback(thr[e]) EXCEPT !.pc = "cc_relock"]]
    /\ call' = ForgetCb(call, e)
    /\ UNCHANGED <<thread, dnsMutex>>

\* lines 306-308 when the thread's mutex is free: it is taken again and the
\* code after the call of CallCallback goes on
CallbackDone(e) ==
    /\ ~Returning
    /\ UNCHANGED <<clock, wire>>
    /\ thr[e].pc = "cb"
    /\ call[e].pc = "idle"
    /\ CanLock(thr[e].mutex)
    /\ \E cur \in (IF thr[e].site = "send" THEN Readings(thr[e]) ELSE {0}) :
          LET T == [EndCallback(thr[e]) EXCEPT !.mutex = e, !.site = "none",
                                               !.pc = "cc_relock"]
              T2 == Resume(e, T, thr[e].site, cur)
          IN  /\ \E T3 \in Outcomes(T2, TickMax) : thr' = [thr EXCEPT ![e] = T3]
              /\ call' = IF T2.pc = "cb"
                         THEN Forget(ForgetCb(call, e), e, T2.cbH, TRUE)
                         ELSE ForgetCb(call, e)
              /\ dnsMutex' = IF dnsMutex = e /\ T2.pc = "stopped"
                             THEN Free ELSE dnsMutex
    /\ UNCHANGED thread

\* line 308: the thread's mutex is taken after the wait for it
CallbackRelock(e) ==
    /\ ~Returning
    /\ UNCHANGED <<clock, wire>>
    /\ thr[e].pc = "cc_relock"
    /\ CanLock(thr[e].mutex)
    /\ \E cur \in (IF thr[e].site = "send" THEN Readings(thr[e]) ELSE {0}) :
          WorkerStep(e, Resume(e, [thr[e] EXCEPT !.mutex = e, !.site = "none"],
                               thr[e].site, cur))

\* ------------------------------------------------------------------ Next
EntryPoint(t) ==
    \/ ResolveTooLong(t)
    \/ ResolveCall(t)
    \/ ResolveLock(t)
    \/ ResolveCheck(t)
    \/ ResolveInsert(t)
    \/ CancelCall(t)
    \/ CancelLock(t)
    \/ CancelRm(t)
    \/ CancelWait(t)
    \/ CleanUpCall(t)
    \/ CleanUpLock(t)
    \/ CleanUpJoin(t)

Worker(e) ==
    \/ Start(e)
    \/ StartAfter(e)
    \/ OpenSocket(e)
    \/ OpenFails(e)
    \/ LoopError(e)
    \/ LoopLock(e)
    \/ RecvIgnore(e)
    \/ RecvFallback(e)
    \/ RecvComplete(e)
    \/ RecvThrows(e)
    \/ SendOne(e)
    \/ SendRefused(e)
    \/ SendNoServer(e)
    \/ SendThrows(e)
    \/ SendDrained(e)
    \/ SendDangling(e)
    \/ Wait(e)
    \/ CallbackReturn(e)
    \/ CallbackDone(e)
    \/ CallbackRelock(e)

\* Calls come from the application thread
Next ==
    \/ Return(App)
    \/ EntryPoint(App)
    \/ \E e \in Engines : Worker(e)

Spec == Init /\ [][Next]_vars

\* ------------------------------------------------- re-entrant callbacks
\* Resolve_ts and Cancel_ts called by the application thread and by the
\* completion callbacks
Reentrant(t) ==
    \/ ResolveCall(t)
    \/ ResolveLock(t)
    \/ ResolveCheck(t)
    \/ ResolveInsert(t)
    \/ CancelCall(t)
    \/ CancelLock(t)
    \/ CancelRm(t)
    \/ CancelWait(t)
    \/ Return(t)

\* the worker with a socket that opens, takes every datagram and receives
\* none: requests are sent or refused for want of a server, and time out
PlainWorker(e) ==
    \/ Start(e)
    \/ StartAfter(e)
    \/ OpenSocket(e)
    \/ LoopLock(e)
    \/ SendOne(e)
    \/ SendNoServer(e)
    \/ SendDrained(e)
    \/ Wait(e)
    \/ CallbackReturn(e)
    \/ CallbackDone(e)
    \/ CallbackRelock(e)

ReentrantNext ==
    \/ \E t \in Threads : Reentrant(t)
    \/ \E e \in Engines : PlainWorker(e)

ReentrantSpec == Init /\ [][ReentrantNext]_vars

\* ------------------------------------------------- transaction IDs alone
\* A thread object whose ID map goes through every sequence of allocations
\* (Resolve_ts, lines 1040-1042) and releases (RemoveResolver, line 552)
IdInit ==
    /\ thread = 1
    /\ dnsMutex = Free
    /\ thr = [e \in Engines |-> IF e = 1 THEN NewThread ELSE NoObject]
    /\ call = [t \in Threads |-> IdleCall]
    /\ clock = Untracked
    /\ wire = NoWire

IdAllocate ==
    /\ FindFreeId(thr[1].idMap) # -1
    /\ UNCHANGED <<clock, wire>>
    /\ thr' = [thr EXCEPT ![1].idMap = MapPut(@, FindFreeId(thr[1].idMap), 1)]
    /\ UNCHANGED <<thread, dnsMutex, call>>

IdRelease ==
    /\ \E id \in DOMAIN thr[1].idMap :
          thr' = [thr EXCEPT ![1].idMap = MapErase(@, id)]
    /\ UNCHANGED <<thread, dnsMutex, call, clock, wire>>

IdNext == IdAllocate \/ IdRelease

IdSpec == IdInit /\ [][IdNext]_vars

\* ------------------------------------------------------ measured time
\* The tick counter is followed: it starts anywhere, advances by one tick at
\* a time and wraps after TickMax.  Every request's left counts the ticks
\* still to pass before timeoutMillis ticks have gone by since its Resolve_ts
\* call.
TimeInit ==
    /\ clock \in Ticks
    /\ wire = NoWire
    /\ thread = NoThread
    /\ dnsMutex = Free
    /\ thr = [e \in Engines |-> NoObject]
    /\ call = [t \in Threads |-> IdleCall]

\* one tick passes
TimeTick ==
    /\ ~Returning
    /\ clock # Untracked
    /\ clock' = (clock + 1) % (TickMax + 1)
    /\ thr' = [e \in Engines |->
                  [thr[e] EXCEPT !.resolversMap =
                      [h \in DOMAIN @ |->
                          [@[h] EXCEPT !.left = IF @ > 0 THEN @ - 1 ELSE 0]]]]
    /\ UNCHANGED <<thread, dnsMutex, call, wire>>

\* Resolve_ts calls of the application thread and a worker whose socket
\* opens, sends and never fails or receives, while time passes
TimeNext ==
    \/ TimeTick
    \/ Return(App)
    \/ ResolveLock(App)
    \/ ResolveInsert(App)
    \/ \E e \in Engines :
          \/ Start(e)
          \/ StartAfter(e)
          \/ OpenSocket(e)
          \/ LoopLock(e)
          \/ SendOne(e)
          \/ SendDrained(e)
          \/ Wait(e)
          \/ CallbackDone(e)

TimeSpec == TimeInit /\ [][TimeNext]_vars

\* ------------------------------------------------------ the wait duration
\* The end of the locked section of the loop (lines 882-897) on a tick range
\* wide enough for a quarter of it to be several ticks.  The worker holds the
\* thread's mutex after the timeout loop, with curTime the tick read at line
\* 849 and one request in the registry: in timeMap1 with a key above
\* curTime, or in timeMap2 with the wrapped end time it was given.
WaitRequest(tm, key) ==
    [hnr |-> 1, recordType |-> D_DNSRecordAAAA, timeMap |-> tm, key |-> key,
     id |-> 0, sendIter |-> 0, dns |-> FALSE, calls |-> 0, cancelled |-> FALSE,
     cancelRet |-> FALSE, left |-> 0, wrapped |-> tm = TimeMap2]

WaitInit ==
    /\ thread = 1
    /\ dnsMutex = Free
    /\ wire = NoWire
    /\ call = [t \in Threads |-> IdleCall]
    /\ clock \in 0 .. WaitTickMax
    /\ \E key \in 0 .. WaitTickMax, tm \in {TimeMap1, TimeMap2} :
          /\ tm = TimeMap1 => key > clock
          /\ tm = TimeMap2 => key < clock
          /\ thr = [e \in Engines |->
                      IF e # 1 THEN NoObject
                      ELSE [NoObject EXCEPT
                               !.state = "RUNNING", !.pc = "timeouts",
                               !.isExiting = FALSE, !.mutex = 1,
                               !.waitMode = "READ", !.curTime = clock,
                               !.lastTicksInFirstHalf =
                                   clock < WaitTickMax \div 2,
                               !.idMap = MapPut(EmptyMap, 0, 1),
                               !.byTime[tm] = <<<<key, 1>>>>,
                               !.resolversMap =
                                   MapPut(EmptyMap, 1, WaitRequest(tm, key))]]

\* lines 882-897: the registry is not empty, the wait duration is computed
\* and the thread's mutex is released
ComputeWait ==
    /\ thr[1].pc = "timeouts"
    /\ \E T3 \in Outcomes([thr[1] EXCEPT
                               !.pc = "wait", !.mutex = Free,
                               !.timeout = WaitDuration(thr[1], WaitTickMax)],
                          WaitTickMax) :
          thr' = [thr EXCEPT ![1] = T3]
    /\ UNCHANGED <<thread, dnsMutex, call, clock, wire>>

WaitNext == ComputeWait

WaitSpec == WaitInit /\ [][WaitNext]_vars

\* ------------------------------------------------- received datagrams
\* the datagram is shorter than 13 bytes, or its ID is the ID of no request,
\* or its question does not name the host of the request with its ID
Foreign(T, d) == ~d.long \/ d.id \notin DOMAIN T.idMap \/ ~d.hostOk

\* the last datagram the worker received, as the sender sees it: foreign to
\* every request of the thread object or not
Verdict(T, d) == [phase |-> "datagram", foreign |-> Foreign(T, d)]

\* lines 741-790 and the rest of the pass of the loop, for any datagram
Received(e) ==
    /\ ~Returning
    /\ UNCHANGED clock
    /\ \/ LET d == CHOOSE x \in Datagrams : ~Matches(thr[e], x)
          IN  Ignores(e, d) /\ wire' = Verdict(thr[e], d)
       \/ \E d \in Datagrams :
             /\ FallsBack(e, d) \/ Completes(e, d)
             /\ wire' = Verdict(thr[e], d)

\* Resolve_ts calls of the application thread and a worker that sends,
\* receives and times requests out
RecvNext ==
    \/ Return(App)
    \/ ResolveLock(App)
    \/ ResolveInsert(App)
    \/ \E e \in Engines :
          \/ Start(e)
          \/ StartAfter(e)
          \/ OpenSocket(e)
          \/ LoopLock(e)
          \/ Received(e)
          \/ SendOne(e)
          \/ SendDrained(e)
          \/ Wait(e)
          \/ CallbackDone(e)

RecvSpec == Init /\ [][RecvNext]_vars

\* ------------------------------------------------- cancelled requests
\* The quit message in the queue of a worker is followed back to the
\* Cancel_ts call that posted it: wire names the handle of that call.
PostsQuit(t) ==
    /\ thread # NoThread
    /\ "Quit" \notin thr[thread].queue
    /\ "Quit" \in thr'[thread].queue

\* Cancel_ts, lines 1109-1121
Cancels(t) ==
    /\ ~Returning
    /\ UNCHANGED clock
    /\ CancelLocks(t) \/ CancelRms(t)
    /\ wire' = IF PostsQuit(t) THEN [phase |-> "quit", hnr |-> call'[t].h]
               ELSE wire

\* Resolve_ts and Cancel_ts calls of the application thread and a worker
\* that sends requests and times them out
CancelNext ==
    \/ Return(App)
    \/ ResolveLock(App)
    \/ ResolveInsert(App)
    \/ Cancels(App)
    \/ \E e \in Engines :
          \/ Start(e)
          \/ StartAfter(e)
          \/ OpenSocket(e)
          \/ LoopLock(e)
          \/ SendOne(e)
          \/ SendDrained(e)
          \/ Wait(e)
          \/ CallbackDone(e)

CancelSpec == Init /\ [][CancelNext]_vars

\* ------------------------------------------------- destroyed thread objects
\* Resolve_ts, Cancel_ts and CleanUp calls of the application thread and a
\* worker that sends, falls back to record A and times requests out; the send
\* list of a thread object is kept until the object is destroyed.
DestructorInit ==
    /\ thread = NoThread
    /\ dnsMutex = Free
    /\ thr = [e \in Engines |-> NoObject]
    /\ call = [t \in Threads |-> IdleCall]
    /\ clock = Untracked
    /\ wire = [phase |-> "destructor"]

DestructorNext ==
    \/ Return(App)
    \/ ResolveLock(App)
    \/ ResolveInsert(App)
    \/ CancelLock(App)
    \/ CancelRm(App)
    \/ CleanUpLock(App)
    \/ CleanUpJoin(App)
    \/ \E e \in Engines :
          \/ Start(e)
          \/ StartAfter(e)
          \/ OpenSocket(e)
          \/ LoopLock(e)
          \/ RecvFallback(e)
          \/ SendOne(e)
          \/ SendDrained(e)
          \/ Wait(e)
          \/ CallbackDone(e)

DestructorSpec == DestructorInit /\ [][DestructorNext]_vars

\* ------------------------------------------------- rejected Resolve_ts calls
\* A thread object that holds a request, sent and waiting for its reply, for
\* each of n other handles (the handles above those of Handles); with MaxId
\* of them one ID is left, and the second request of the callers is refused.
RECURSIVE Preload(_, _)
Preload(T, n) ==
    IF n = 0 THEN T
    ELSE LET T1 == Preload(T, n - 1)
             h == SetMax(Handles) + n
             T2 == InsertResolver(T1, h, FindFreeId(T1.idMap), 0, MaxTimeout, TRUE)
         IN  PopSent(T2)

\* the worker has sent them all and waits for the socket and the queue; one
\* ID is left, or two
RejectInit ==
    /\ clock = Untracked
    /\ wire = NoWire
    /\ thread = 1
    /\ dnsMutex = Free
    /\ \E n \in {MaxId - 1, MaxId} :
          thr = [e \in Engines |->
                    IF e = 1
                    THEN [Preload(StartThread(NewThread, 0), n) EXCEPT
                             !.pc = "wait", !.queue = {}, !.waitMode = "READ",
                             !.dns = TRUE]
                    ELSE NoObject]
    /\ call = [t \in Threads |-> IdleCall]

RejectNext ==
    \/ ResolveTooLong(App)
    \/ ResolveLock(App)
    \/ ResolveInsert(App)
    \/ CancelLock(App)
    \/ Return(App)

RejectSpec == RejectInit /\ [][RejectNext]_vars

\* ------------------------------------------------------- DNS datagrams
\* Host names are strings over '.' (46) and 'a' (97); a datagram is a
\* sequence of bytes and offset p of it is element p + 1.
Chars == {46, 97}

RECURSIVE Strings(_)
Strings(n) ==
    IF n = 0 THEN {<<>>}
    ELSE LET S == Strings(n - 1)
         IN  S \cup {Append(x, c) : x \in {y \in S : Len(y) = n - 1}, c \in Chars}

\* the host names Resolve_ts is called with (all are accepted: lines 980-982
\* refuse only more than 253 bytes)
HostNames == Strings(MaxHostLen)

\* the record types of a request
RecordTypes == {D_DNSRecordA, D_DNSRecordAAAA}

\* what a byte that the code did not write, or did not receive, reads as
Garbage == {0, 97}

\* ting::StaticBuffer<ting::u8, 512>: the size of the receive buffer
BufSize == 512

Max(a, b) == IF a < b THEN b ELSE a

Serialize16BE(v) == <<(v \div 256) % 256, v % 256>>

\* what the receive buffer (line 746) holds before Recv writes into it: the
\* bytes old, a datagram received earlier, and the byte fill after them
Before(old, fill) == [old |-> old, fill |-> fill]

NoStale == Before(<<>>, 0)

\* the byte at offset p of the buffer that holds datagram b: past the end of
\* the datagram the buffer holds what was there before
At(b, stale, p) ==
    IF p < Len(b) THEN b[p + 1]
    ELSE IF p < Len(stale.old) THEN stale.old[p + 1]
    ELSE stale.fill

Deserialize16BE(b, stale, p) == At(b, stale, p) * 256 + At(b, stale, p + 1)

\* n bytes from offset p
Bytes(b, stale, p, n) == [i \in 1 .. n |-> At(b, stale, p + i - 1)]

\* hostName.find('.', from), the size of the name standing for npos
RECURSIVE FindDot(_, _)
FindDot(host, from) ==
    IF from >= Len(host) THEN Len(host)
    ELSE IF host[from + 1] = 46 THEN from
    ELSE FindDot(host, from + 1)

\* lines 246-266: the labels written for the host name from dotPos on
RECURSIVE Labels(_, _)
Labels(host, dotPos) ==
    IF dotPos >= Len(host) THEN <<>>
    ELSE LET d == FindDot(host, dotPos)
         IN  <<d - dotPos>> \o SubSeq(host, dotPos + 1, d) \o Labels(host, d + 1)

\* lines 209-219
PacketSize(host) == 2 + 2 + 2 + 2 + 2 + 2 + Len(host) + 2 + 2 + 2

\* lines 223-275: the bytes SendRequestToDNS writes into its buffer
Written(id, host, recordType) ==
    Serialize16BE(id) \o Serialize16BE(256) \o Serialize16BE(1)
        \o Serialize16BE(0) \o Serialize16BE(0) \o Serialize16BE(0)
        \o Labels(host, 0) \o <<0>>
        \o Serialize16BE(recordType) \o Serialize16BE(1)

\* lines 281-282: the datagram sent is the first packetSize bytes of the
\* buffer; a byte that was not written reads as g
SendRequestToDNS(id, host, recordType, g) ==
    LET w == Written(id, host, recordType)
    IN  [i \in 1 .. PacketSize(host) |-> IF i <= Len(w) THEN w[i] ELSE g]

\* the addresses a server answers with
Addresses(recordType) ==
    IF recordType = D_DNSRecordA
    THEN {<<1, 2, 3, 4>>, <<255, 0, 128, 7>>}
    ELSE {[i \in 1 .. 16 |-> i], [i \in 1 .. 16 |-> 255 - i]}

\* a server's reply to datagram query: the header says response, no error,
\* one question, one answer; the question is the query's; the answer record
\* names the question by reference and carries addr
Response(query, recordType, addr) ==
    SubSeq(query, 1, 2) \o <<129, 128>> \o Serialize16BE(1) \o Serialize16BE(1)
        \o Serialize16BE(0) \o Serialize16BE(0)
        \o SubSeq(query, 13, Len(query))
        \o <<192, 12>> \o Serialize16BE(recordType) \o Serialize16BE(1)
        \o <<0, 0, 0, 60>> \o Serialize16BE(Len(addr)) \o addr

\* lines 67-97 from offset p with the host name read so far; hi is the number
\* of leading bytes of the buffer that have been read.  A failure returns the
\* empty name.
RECURSIVE ParseHostNameFromDNSPacket(_, _, _, _, _, _)
ParseHostNameFromDNSPacket(b, stale, p, end, host, hi) ==
    IF p = end THEN [host |-> <<>>, p |-> p, hi |-> hi]
    ELSE LET len == At(b, stale, p)
         IN  IF len = 0 THEN [host |-> host, p |-> p + 1, hi |-> Max(hi, p + 1)]
             ELSE IF end - (p + 1) < len
             THEN [host |-> <<>>, p |-> p + 1, hi |-> Max(hi, p + 1)]
             ELSE ParseHostNameFromDNSPacket(b, stale, p + 1 + len, end,
                     (IF host # <<>> THEN Append(host, 46) ELSE host)
                         \o Bytes(b, stale, p + 1, len),
                     Max(hi, p + 1 + len))

ParseResult(result, host, hi) == [res |-> result, addr |-> host, hi |-> hi]

\* the first offset from p on that holds 0, or the end of the datagram
RECURSIVE SkipName(_, _)
SkipName(b, p) ==
    IF p >= Len(b) THEN Len(b) ELSE IF b[p + 1] = 0 THEN p ELSE SkipName(b, p + 1)

\* lines 429-509: the loop through the answers, at answer n and offset p
RECURSIVE Answers(_, _, _, _, _, _, _)
Answers(b, stale, recordType, p, n, numAnswers, hi) ==
    LET end == Len(b)
    IN  IF n = numAnswers THEN ParseResult("DNS_ERROR", <<>>, hi)
        ELSE IF p = end THEN ParseResult("DNS_ERROR", <<>>, hi)
        ELSE IF p > end THEN ParseResult("DNS_ERROR", <<>>, Max(hi, p + 1))
        ELSE LET isName == At(b, stale, p) \div 64 = 0
                 q == SkipName(b, p)
                 p1 == IF isName THEN q + 1 ELSE p + 2
                 hi1 == IF isName THEN Max(hi, IF q < end THEN q + 1 ELSE end)
                        ELSE Max(hi, p + 1)
                 type == Deserialize16BE(b, stale, p1)
                 p2 == p1 + 2
                 hi2 == Max(hi1, p2)
                 p3 == p2 + 2
                 p4 == p3 + 4
                 dataLen == Deserialize16BE(b, stale, p4)
                 p5 == p4 + 2
                 hi5 == Max(hi2, p5)
             IN  IF isName /\ q = end THEN ParseResult("DNS_ERROR", <<>>, hi1)
                 ELSE IF end - p1 < 2 THEN ParseResult("DNS_ERROR", <<>>, hi1)
                 ELSE IF end - p2 < 2 THEN ParseResult("DNS_ERROR", <<>>, hi2)
                 ELSE IF end - p3 < 4 THEN ParseResult("DNS_ERROR", <<>>, hi2)
                 ELSE IF end - p4 < 2 THEN ParseResult("DNS_ERROR", <<>>, hi2)
                 ELSE IF end - p5 < dataLen THEN ParseResult("DNS_ERROR", <<>>, hi5)
                 ELSE IF type # recordType
                 THEN Answers(b, stale, recordType, p5 + dataLen, n + 1,
                              numAnswers, hi5)
                 ELSE IF type = D_DNSRecordA
                 THEN IF dataLen < 4 THEN ParseResult("DNS_ERROR", <<>>, hi5)
                      ELSE ParseResult("OK", Bytes(b, stale, p5, 4), p5 + 4)
                 ELSE IF type = D_DNSRecordAAAA
                 THEN IF dataLen < 2 * 8 THEN ParseResult("DNS_ERROR", <<>>, hi5)
                      ELSE ParseResult("OK", Bytes(b, stale, p5, 16), p5 + 16)
                 ELSE ParseResult("OK", <<>>, hi5)

\* faulty variant of ParseReplyFromDNS: the answer count is looked at before
\* the response code
ParseReplyCountFirst(b, stale, hostName, recordType) ==
    LET end == Len(b)
        flags == Deserialize16BE(b, stale, 2)
        numQuestions == Deserialize16BE(b, stale, 4)
        numAnswers == Deserialize16BE(b, stale, 6)
        h == ParseHostNameFromDNSPacket(b, stale, 12, end, <<>>, 8)
        type == Deserialize16BE(b, stale, h.p)
        cls == Deserialize16BE(b, stale, h.p + 2)
    IN  IF end < 2 + 2 + 2 + 2 + 2 + 2 THEN ParseResult("DNS_ERROR", <<>>, 0)
        ELSE IF flags \div 32768 = 0 THEN ParseResult("DNS_ERROR", <<>>, 4)
        ELSE IF numAnswers = 0 THEN ParseResult("NO_SUCH_HOST", <<>>, 8)
        ELSE IF flags % 16 = 3 THEN ParseResult("NO_SUCH_HOST", <<>>, 4)
        ELSE IF flags % 16 # 0 THEN ParseResult("DNS_ERROR", <<>>, 4)
        ELSE IF numQuestions # 1 THEN ParseResult("DNS_ERROR", <<>>, 6)
        ELSE IF h.host # hostName THEN ParseResult("DNS_ERROR", <<>>, h.hi)
        ELSE IF type # recordType
        THEN ParseResult("DNS_ERROR", <<>>, Max(h.hi, h.p + 2))
        ELSE IF cls # 1 THEN ParseResult("DNS_ERROR", <<>>, Max(h.hi, h.p + 4))
        ELSE Answers(b, stale, recordType, h.p + 4, 0, numAnswers,
                     Max(h.hi, h.p + 4))

\* lines 323-512 on the received datagram b for a request of hostName and
\* recordType
ParseReplyFromDNS(b, stale, hostName, recordType) ==
    LET end == Len(b)
        flags == Deserialize16BE(b, stale, 2)
        numQuestions == Deserialize16BE(b, stale, 4)
        numAnswers == Deserialize16BE(b, stale, 6)
        h == ParseHostNameFromDNSPacket(b, stale, 12, end, <<>>, 8)
        type == Deserialize16BE(b, stale, h.p)
        cls == Deserialize16BE(b, stale, h.p + 2)
    IN  IF end < 2 + 2 + 2 + 2 + 2 + 2 THEN ParseResult("DNS_ERROR", <<>>, 0)
        ELSE IF flags \div 32768 = 0 THEN ParseResult("DNS_ERROR", <<>>, 4)
        ELSE IF flags % 16 = 3 THEN ParseResult("NO_SUCH_HOST", <<>>, 4)
        ELSE IF flags % 16 # 0 THEN ParseResult("DNS_ERROR", <<>>, 4)
        ELSE IF numQuestions # 1 THEN ParseResult("DNS_ERROR", <<>>, 6)
        ELSE IF numAnswers = 0 THEN ParseResult("NO_SUCH_HOST", <<>>, 8)
        ELSE IF h.host # hostName THEN ParseResult("DNS_ERROR", <<>>, h.hi)
        ELSE IF type # recordType
        THEN ParseResult("DNS_ERROR", <<>>, Max(h.hi, h.p + 2))
        ELSE IF cls # 1 THEN ParseResult("DNS_ERROR", <<>>, Max(h.hi, h.p + 4))
        ELSE Answers(b, stale, recordType, h.p + 4, 0, numAnswers,
                     Max(h.hi, h.p + 4))

\* Run(), lines 744-787, for a datagram b whose ID is that of a request of
\* hostName and recordType: the datagram is dropped ("IGNORED") or parsed
Receive(b, stale, hostName, recordType) ==
    LET pre == ParseHostNameFromDNSPacket(b, stale, 12, BufSize, <<>>, 2)
        r == ParseReplyFromDNS(b, stale, hostName, recordType)
    IN  IF Len(b) < 13 THEN ParseResult("IGNORED", <<>>, 0)
        ELSE IF pre.host # hostName THEN ParseResult("IGNORED", <<>>, pre.hi)
        ELSE ParseResult(r.res, r.addr, Max(r.hi, pre.hi))

\* one request's query is encoded, answered, delivered whole or cut short,
\* and decoded
CodecInit ==
    /\ thread = NoThread
    /\ dnsMutex = Free
    /\ thr = [e \in Engines |-> NoObject]
    /\ call = [t \in Threads |-> IdleCall]
    /\ clock = Untracked
    /\ \E i \in {0, MaxId}, h \in HostNames, ty \in RecordTypes :
          wire = [phase |-> "asked", id |-> i, hostName |-> h,
                  recordType |-> ty, query |-> <<>>, addr |-> <<>>,
                  reply |-> <<>>, buf |-> <<>>, stale |-> NoStale,
                  out |-> ParseResult("NONE", <<>>, 0)]

Encode ==
    /\ wire.phase = "asked"
    /\ \E g \in Garbage :
          wire' = [wire EXCEPT !.phase = "sent",
                      !.query = SendRequestToDNS(wire.id, wire.hostName,
                                                 wire.recordType, g)]
    /\ UNCHANGED <<thread, dnsMutex, thr, call, clock>>

Respond ==
    /\ wire.phase = "sent"
    /\ \E a \in Addresses(wire.recordType) :
          wire' = [wire EXCEPT !.phase = "replied", !.addr = a,
                      !.reply = Response(wire.query, wire.recordType, a)]
    /\ UNCHANGED <<thread, dnsMutex, thr, call, clock>>

\* socket.Recv returns the first n bytes of the reply
Deliver ==
    /\ wire.phase = "replied"
    /\ \E n \in 0 .. Len(wire.reply), g \in Garbage :
          wire' = [wire EXCEPT !.phase = "received", !.stale = Before(<<>>, g),
                      !.buf = SubSeq(wire.reply, 1, n)]
    /\ UNCHANGED <<thread, dnsMutex, thr, call, clock>>

Decode ==
    /\ wire.phase = "received"
    /\ wire' = [wire EXCEPT !.phase = "decoded",
                   !.out = Receive(wire.buf, wire.stale, wire.hostName,
                                   wire.recordType)]
    /\ UNCHANGED <<thread, dnsMutex, thr, call, clock>>

CodecNext == Encode \/ Respond \/ Deliver \/ Decode

CodecSpec == CodecInit /\ [][CodecNext]_vars

\* ------------------------------------------------------- replies of any kind
\* A request of hostName and recordType gets a datagram put together from the
\* fields of a reply: the QR bit, the response code, the counts, the question
\* and the types of its answer records; the datagram arrives whole or cut
\* short, in a buffer that holds an earlier reply or a fill byte.
\* the names the request and the question of the reply are made of
AskedNames == {<<97>>, <<97, 46, 97>>}

OtherName == <<97, 97>>

\* the types of the answer records: A, AAAA and CNAME (5), which no request
\* asks for
AnswerTypes == {D_DNSRecordA, D_DNSRecordAAAA, 5}

\* the lists of answer records of a reply, by type
AnswerLists ==
    {<<>>} \cup {<<x>> : x \in AnswerTypes}
           \cup {<<x, y>> : x \in AnswerTypes, y \in AnswerTypes}

ReplyFields(hostName) ==
    [qr : BOOLEAN, rcode : {0, 2, 3}, qd : {1, 2}, qhost : {hostName, OtherName},
     qtype : RecordTypes, qclass : {1, 3}, recs : AnswerLists]

\* the data of an answer record of type ty
AddressOf(ty) ==
    IF ty = D_DNSRecordA THEN <<1, 2, 3, 4>>
    ELSE IF ty = D_DNSRecordAAAA THEN [i \in 1 .. 16 |-> i]
    ELSE <<192, 12>>

Header(id, f) ==
    Serialize16BE(id) \o <<(IF f.qr THEN 128 ELSE 0) + 1, 128 + f.rcode>>
        \o Serialize16BE(f.qd) \o Serialize16BE(Len(f.recs))
        \o Serialize16BE(0) \o Serialize16BE(0)

Question(f) ==
    Labels(f.qhost, 0) \o <<0>> \o Serialize16BE(f.qtype)
        \o Serialize16BE(f.qclass)

AnswerRecord(ty) ==
    <<192, 12>> \o Serialize16BE(ty) \o Serialize16BE(1) \o <<0, 0, 0, 60>>
        \o Serialize16BE(Len(AddressOf(ty))) \o AddressOf(ty)

RECURSIVE AnswerRecords(_)
AnswerRecords(recs) ==
    IF recs = <<>> THEN <<>>
    ELSE AnswerRecord(Head(recs)) \o AnswerRecords(Tail(recs))

Datagram(id, f) == Header(id, f) \o Question(f) \o AnswerRecords(f.recs)

\* the offset after the question, and after answer record k
QuestionEnd(f) == 12 + Len(Question(f))

AnswerEnd(f, k) == QuestionEnd(f) + Len(AnswerRecords(SubSeq(f.recs, 1, k)))

\* the lengths a datagram of fields f is cut to: in and around the header,
\* the question and the answer records
Cuts(f) ==
    {11, 12, 13, QuestionEnd(f) - 4, QuestionEnd(f) - 2, QuestionEnd(f),
     Len(Datagram(0, f)) - 1, Len(Datagram(0, f))}
        \cup {AnswerEnd(f, k) : k \in 1 .. Len(f.recs)}

\* an earlier reply to the same question, left in the buffer
EarlierReply(id, hostName, recordType) ==
    Datagram(id, [qr |-> TRUE, rcode |-> 0, qd |-> 1, qhost |-> hostName,
                  qtype |-> recordType, qclass |-> 1, recs |-> <<recordType>>])

ParseInit ==
    /\ thread = NoThread
    /\ dnsMutex = Free
    /\ thr = [e \in Engines |-> NoObject]
    /\ call = [t \in Threads |-> IdleCall]
    /\ clock = Untracked
    /\ \E h \in AskedNames, ty \in RecordTypes :
          wire = [phase |-> "asked", id |-> MaxId, hostName |-> h,
                  recordType |-> ty, f |-> <<>>, buf |-> <<>>, stale |-> NoStale,
                  out |-> ParseResult("NONE", <<>>, 0)]

\* a datagram with the ID of the request is on its way
Replied ==
    /\ wire.phase = "asked"
    /\ \E f \in ReplyFields(wire.hostName) :
          wire' = [wire EXCEPT !.phase = "replied", !.f = f]
    /\ UNCHANGED <<thread, dnsMutex, thr, call, clock>>

\* socket.Recv (line 748) returns the first n bytes of it
Delivered ==
    /\ wire.phase = "replied"
    /\ \E n \in Cuts(wire.f),
          st \in {Before(<<>>, g) : g \in Garbage}
                 \cup {Before(EarlierReply(wire.id, wire.hostName,
                                          wire.recordType), 0)} :
          wire' = [wire EXCEPT !.phase = "received", !.stale = st,
                      !.buf = SubSeq(Datagram(wire.id, wire.f), 1, n)]
    /\ UNCHANGED <<thread, dnsMutex, thr, call, clock>>

\* line 762
Parsed ==
    /\ wire.phase = "received"
    /\ wire' = [wire EXCEPT !.phase = "decoded",
                   !.out = ParseReplyFromDNS(wire.buf, wire.stale,
                                             wire.hostName, wire.recordType)]
    /\ UNCHANGED <<thread, dnsMutex, thr, call, clock>>

ParseNext == Replied \/ Delivered \/ Parsed

ParseSpec == ParseInit /\ [][ParseNext]_vars

\* ------------------------------------------------------------ properties
\* C1: OnCompleted_ts is invoked at most once for an accepted request, and
\* never for a request for which Cancel_ts has returned true.
C1_AtMostOneCallback ==
    \A e \in Engines :
        InCallback(e) => thr[e].cbCalls <= 1 /\ ~thr[e].cbCancelled

\* a callback is being delivered for one handle while Cancel_ts has just
\* returned true for the request of the other
C1_Witness ==
    \E e \in Engines :
        /\ InCallback(e)
        /\ thr[e].cbCalls = 1
        /\ call[App].pc = "done"
        /\ call[App].res = "true"
        /\ call[App].h # thr[e].cbH

\* C2: every accepted request that is not cancelled gets its callback in the
\* end.  A worker that has returned from Run() delivers nothing more, so no
\* request may be left in the registry of a thread object whose worker has
\* stopped.
C2_NoRequestLeftBehind ==
    \A e \in Engines :
        \A h \in DOMAIN thr[e].resolversMap : thr[e].state # "STOPPED"

\* C3: while OnCompleted_ts is executing the worker holds neither the mutex of
\* its thread object nor dns::mutex.
C3_CallbackHoldsNoMutex ==
    \A e \in Engines : InCallback(e) => dnsMutex # e /\ thr[e].mutex # e

\* C4: once Cancel_ts has returned on a handle, no callback of the request
\* the handle had when Cancel_ts was called is executing or starts later.
C4_NoCallbackAfterCancel ==
    \A e \in Engines : InCallback(e) => ~thr[e].cbCancelRet

\* C5: a callback that calls Resolve_ts or Cancel_ts returns: the worker is
\* never blocked inside Cancel_ts on completedMutex, which it holds itself
\* until the callback has returned.
C5_CallbackNeverBlocksOnItself ==
    \A e \in Engines :
        ~(/\ InCallback(e)
          /\ call[e].pc = "c_wait"
          /\ thr[thread].completedMutex = e)

\* C6: Cancel_ts returns true exactly when the handle had a request whose
\* callback had not started, which it removed, and false exactly when the
\* handle had no such request.
C6_CancelResult ==
    \A t \in Threads :
        call[t].pc = "done" =>
            /\ call[t].res = "true" => call[t].had
            /\ call[t].res = "false" => ~call[t].had

\* C7: a handle never has two requests outstanding at the same time.
C7_OneRequestPerHandle ==
    \A h \in Handles : Cardinality(InRegistry(h)) <= 1

\* C8: no two requests of a thread object have the same ID, and the entry of
\* the ID map for the ID of a request points to that request.
C8_UniqueIds ==
    \A e \in Engines :
        LET rm == thr[e].resolversMap
        IN  /\ \A h1, h2 \in DOMAIN rm : h1 # h2 => rm[h1].id # rm[h2].id
            /\ \A h \in DOMAIN rm :
                  rm[h].id \in DOMAIN thr[e].idMap /\ thr[e].idMap[rm[h].id] = h

\* two requests are outstanding in one thread object
C8_Witness ==
    \E e \in Engines : Cardinality(DOMAIN thr[e].resolversMap) = 2

\* C9: FindFreeId returns an ID that is not in the ID map whenever one is
\* unused, and throws TooMuchRequestsExc only when every ID is in use.
C9_FindFreeId ==
    LET used == DOMAIN thr[1].idMap
        id == FindFreeId(thr[1].idMap)
    IN  IF used = Ids THEN id = -1 ELSE id \in Ids \ used

\* the lowest and the highest ID are in use and an ID between them is free
C9_Witness ==
    LET used == DOMAIN thr[1].idMap
    IN  0 \in used /\ MaxId \in used /\ used # Ids

\* the three indexes of thread object T hold the same requests, once each
IndexesAgree(T) ==
    LET reg == DOMAIN T.resolversMap
        tm == T.byTime[TimeMap1] \o T.byTime[TimeMap2]
    IN  /\ {T.idMap[i] : i \in DOMAIN T.idMap} = reg
        /\ Cardinality(DOMAIN T.idMap) = Cardinality(reg)
        /\ {tm[i][2] : i \in 1..Len(tm)} = reg
        /\ Len(tm) = Cardinality(reg)

\* the send list of T holds requests of the registry only
SendListLive(T) ==
    \A i \in 1..Len(T.sendList) : T.sendList[i] \in DOMAIN T.resolversMap

\* C10: whenever the mutex of a thread object is free, its by-handle registry,
\* its ID map and its two time maps hold the same requests, once each, and a
\* request RemoveResolver has removed is in none of them nor in the send list.
C10_IndexesAgree ==
    \A e \in Engines :
        thr[e].mutex = Free => IndexesAgree(thr[e]) /\ SendListLive(thr[e])

\* the request indexes of thread object T
Indexes(T) == <<T.resolversMap, T.idMap, T.byTime, T.sendList>>

\* the results of a Resolve_ts call that is rejected
Rejections == {"DomainNameTooLongExc", "AlreadyInProgressExc", "TooMuchRequestsExc"}

\* C11: a Resolve_ts call that ends with DomainNameTooLongExc,
\* AlreadyInProgressExc or TooMuchRequestsExc leaves the registry, the ID map,
\* both time maps and the send list of every thread object as they were, and
\* starts no callback.
C11_RejectedLeavesNoTrace ==
    [][\A t \in Threads :
          (call[t].pc # "done" /\ call'[t].pc = "done" /\ call'[t].res \in Rejections)
          => \A e \in Engines :
                /\ Indexes(thr'[e]) = Indexes(thr[e])
                /\ thr'[e].pc = thr[e].pc
                /\ thr'[e].cbH = thr[e].cbH]_vars

\* a Resolve_ts call has been refused for want of a free ID
C11_Witness ==
    call[App].pc = "done" /\ call[App].res = "TooMuchRequestsExc"

\* C12: the Timeout outcome is never delivered before timeoutMillis ticks
\* have passed since the request's Resolve_ts call, also when the expiry tick
\* wrapped past TickMax and when the request was scheduled after the counter
\* wrapped but before the worker read it again.
C12_NoEarlyTimeout ==
    \A e \in Engines :
        (InCallback(e) /\ thr[e].cbRes = "TIMEOUT") => thr[e].cbLeft = 0

\* the type-A query of request h of thread object T has been sent
SentAsA(T, h) ==
    /\ h \in DOMAIN T.resolversMap
    /\ T.resolversMap[h].recordType = D_DNSRecordA
    /\ T.resolversMap[h].sendIter = 0

\* C13: an AAAA request that receives NoSuchHost is re-sent as type A and no
\* callback fires for it; the NoSuchHost callback is delivered only after the
\* type-A query has been sent and answered with NoSuchHost.
C13_NoSuchHostAfterA ==
    [][\A e \in Engines :
          (thr[e].pc = "loop" /\ thr'[e].pc = "cb"
             /\ thr'[e].cbRes = "NO_SUCH_HOST")
          => SentAsA(thr[e], thr'[e].cbH)]_vars

\* C14: after an error condition of the socket, a failed receive or send, or
\* a socket that could not be opened, the thread object is marked exiting,
\* the callbacks of RemoveAllResolvers carry ERROR, and once the worker has
\* returned no request is left in the thread object's registry.
C14_FailedEngineFailsAll ==
    \A e \in Engines :
        /\ thr[e].failed => thr[e].isExiting
        /\ (InCallback(e) /\ thr[e].site = "ra") => thr[e].cbRes = "ERROR"
        /\ (thr[e].failed /\ thr[e].state = "STOPPED")
              => DOMAIN thr[e].resolversMap = {}

\* C15: once a worker has returned from Run() after a socket failure or a
\* socket that could not be opened, a Resolve_ts call does not block: it is
\* never left waiting for the mutex of that thread object.
C15_ResolveAfterFailureGoesOn ==
    \A t \in Threads :
        call[t].pc = "r_chk"
        => ~(thr[thread].failed /\ thr[thread].state = "STOPPED")

\* C16: CleanUp called with no request outstanding always returns, whatever
\* the worker is doing.  It cannot return from a state in which it waits in
\* Join() with dns::mutex held while the worker waits for dns::mutex to open
\* its socket, so that state is never reached.
C16_CleanUpReturns ==
    \A t \in Threads :
        (call[t].pc = "cl_join" /\ dnsMutex = t) => thr[thread].pc # "open"

\* C17: with several requests outstanding a reply completes the request
\* whose transaction ID it carries and no other: the request removed has the
\* datagram's ID, every other request stays in the registry with its ID and
\* without a callback counted for it.
C17_ReplyCompletesItsRequest ==
    [][\A e \in Engines :
          (thr[e].pc = "loop" /\ thr'[e].pc = "cb" /\ thr'[e].cbId # -1)
          => LET h == thr'[e].cbH
                 R == thr[e].resolversMap
                 R2 == thr'[e].resolversMap
             IN  /\ h \in DOMAIN R
                 /\ R[h].id = thr'[e].cbId
                 /\ DOMAIN R2 = DOMAIN R \ {h}
                 /\ \A g \in DOMAIN R2 :
                       R2[g].id = R[g].id /\ R2[g].calls = R[g].calls]_vars

C17_Witness ==
    \E e \in Engines :
        /\ InCallback(e)
        /\ thr[e].cbId # -1
        /\ thr[e].cbRes = "OK"
        /\ thr[e].cbH = SetMax(Handles)
        /\ DOMAIN thr[e].resolversMap # {}

\* what the code keeps in the request indexes of thread object T (the history
\* fields of the records left out)
Stored(T) ==
    <<[h \in DOMAIN T.resolversMap |->
          LET r == T.resolversMap[h]
          IN  <<r.id, r.timeMap, r.key, r.sendIter, r.recordType, r.dns>>],
      T.idMap, T.byTime, T.sendList>>

\* the step moves the thread object that follows e into the slot of e, or
\* ends the worker of e (the indexes are not read again)
Moved(e) ==
    \/ \E e2 \in Engines :
          thr[e2].prevThread = e /\ thr[e2].state # "NONE"
             /\ thr'[e2].state = "NONE"
    \/ thr'[e].state = "NONE"
    \/ thr'[e].pc = "stopped"

C19_RoundTrip ==
    /\ wire.phase \in {"sent", "replied", "received", "decoded"}
          => ParseHostNameFromDNSPacket(wire.query, NoStale, 12, Len(wire.query),
                                        <<>>, 0).host = wire.hostName
    /\ (wire.phase = "decoded" /\ wire.buf = wire.reply)
          => wire.out.res = "OK" /\ wire.out.addr = wire.addr

\* C20: for a reply cut at any byte from 0 to its full length the receive
\* path and the decoder read no byte at or past the end of the received
\* data, and the datagram is parsed, dropped or found in error.
C20_NoReadPastEnd ==
    wire.phase = "decoded"
    => /\ wire.out.hi <= Len(wire.buf)
       /\ wire.out.res \in {"OK", "NO_SUCH_HOST", "DNS_ERROR", "IGNORED"}

\* C21: an accepted Resolve_ts never puts its request into a thread object
\* whose worker has marked itself exiting or has left its loop: a step that
\* adds a handle to a registry finds the thread object running and not
\* exiting.
C21_NoInsertIntoExiting ==
    [][\A e \in Engines : \A h \in Handles :
          (/\ thr[e].state # "NONE"
           /\ ~Moved(e)
           /\ h \notin DOMAIN thr[e].resolversMap
           /\ h \in DOMAIN thr'[e].resolversMap)
          => /\ ~thr[e].isExiting
             /\ thr[e].state = "RUNNING"
             /\ thr[e].pc \notin {"stopped", "crashed"}]_vars

\* C22: the worker leaves its loop only with an empty registry (on a fatal
\* error after it has failed every request), and whenever it has left the
\* loop the thread object's isExiting flag is true.
C22_LeftLoopIsExiting ==
    [][\A e \in Engines :
          (thr[e].pc # "stopped" /\ thr'[e].pc = "stopped")
          => /\ thr'[e].isExiting
             /\ DOMAIN thr'[e].resolversMap = {}]_vars

\* the number of entries of send list s that point to a removed Resolver
Dangles(s) == Cardinality({i \in 1 .. Len(s) : s[i] = NoHandle})

\* the worker of e takes a step that ends in a call of OnCompleted_ts
CallbackStarts(e) ==
    /\ thr'[e].pc = "cb"
    /\ thr'[e] # thr[e]
    /\ clock' = clock
    /\ \A t \in Threads : call'[t].pc = call[t].pc

\* C23: when the callback of a handle starts, the handle's request is in
\* none of the by-handle registry, the ID map, the two time maps and the send
\* list (no entry of the send list is left pointing to it), so that a
\* Resolve_ts on the handle is not refused as already in progress.
C23_RemovedBeforeCallback ==
    [][\A e \in Engines :
          CallbackStarts(e)
          => LET T == thr'[e]
                 h == T.cbH
                 tm == T.byTime[TimeMap1] \o T.byTime[TimeMap2]
             IN  /\ h \notin DOMAIN T.resolversMap
                 /\ \A i \in DOMAIN T.idMap : T.idMap[i] # h
                 /\ \A i \in 1 .. Len(tm) : tm[i][2] # h
                 /\ \A i \in 1 .. Len(T.sendList) : T.sendList[i] # h
                 /\ Dangles(T.sendList) <= Dangles(thr[e].sendList)]_vars

\* the IDs of S in ascending order, as the iteration over idMap visits them
RECURSIVE Ascending(_)
Ascending(S) ==
    IF S = {} THEN <<>> ELSE <<SetMin(S)>> \o Ascending(S \ {SetMin(S)})

\* C24: FindFreeId returns 0 for an empty ID map; else the smallest used ID
\* minus one if that ID is not 0; else the largest used ID plus one if that ID
\* is not the maximum; else the lower ID plus one of the first pair of
\* neighbouring used IDs, in ascending order, that are more than 1 apart.
C24_FindFreeIdResult ==
    LET ids == Ascending(DOMAIN thr[1].idMap)
        n == Len(ids)
        id == FindFreeId(thr[1].idMap)
        apart == {i \in 1 .. n - 1 : ids[i + 1] - ids[i] > 1}
    IN  IF n = 0 THEN id = 0
        ELSE IF ids[1] # 0 THEN id = ids[1] - 1
        ELSE IF ids[n] # MaxId THEN id = ids[n] + 1
        ELSE IF apart # {} THEN id = ids[SetMin(apart)] + 1
        ELSE TRUE

\* the lowest and the highest ID are in use, and so is the ID next to the
\* lowest one: the free ID is found by the scan of the pairs, past the first
C24_Witness ==
    LET used == DOMAIN thr[1].idMap
    IN  {0, 1, MaxId} \subseteq used /\ used # Ids /\ FindFreeId(thr[1].idMap) > 2

\* the worker of e comes to the computation of its wait duration, line 893
ComputesWait(e) == thr[e].pc # "wait" /\ thr'[e].pc = "wait"

\* C25: when the worker computes its wait duration, timeMap1 is not empty and
\* its smallest key is greater than the tick read at line 849, also when
\* every request of the registry has a wrapped end time and is in timeMap2.
C25_CurrentMapHasLaterKey ==
    [][\A e \in Engines :
          ComputesWait(e)
          => LET tm == thr'[e].byTime[TimeMap1]
             IN  tm # <<>> /\ tm[1][1] > thr'[e].curTime]_vars

\* C26: the wait duration passed to the wait set is the smaller of one
\* quarter of the tick range and the smallest key of timeMap1 minus curTime;
\* it is at least 1 and at most a quarter of the tick range.
C26_WaitDuration ==
    \A e \in Engines :
       thr[e].pc = "wait"
       => LET tm == thr[e].byTime[TimeMap1]
              quarter == WaitTickMax \div 4
          IN  /\ tm # <<>>
              /\ thr[e].timeout \in {tm[1][1] - thr[e].curTime, quarter}
              /\ thr[e].timeout <= tm[1][1] - thr[e].curTime
              /\ thr[e].timeout >= 1
              /\ thr[e].timeout <= quarter

\* the worker of e takes the step that swaps the time maps, line 864
Swaps(e) ==
    /\ thr[e].state = "RUNNING" /\ thr'[e].state = "RUNNING"
    /\ thr[e].pc \in {"loop", "sendloop", "cb", "cc_relock"}
    /\ ~thr[e].lastTicksInFirstHalf
    /\ thr'[e].lastTicksInFirstHalf

\* C27: after a tick of the lower half is read that follows one of the upper
\* half, every request of timeMap1 is completed with TIMEOUT, timeMap2 being
\* left alone, and then the maps are swapped: the requests of timeMap2 are in
\* timeMap1 after the swap (but the first, when the timeout loop that follows
\* finds its end time reached) and timeMap2 is empty.
C27_WrapSwapsMaps ==
    [][\A e \in Engines :
          /\ (CallbackStarts(e) /\ thr'[e].site = "warploop")
             => /\ thr'[e].cbRes = "TIMEOUT"
                /\ thr[e].byTime[TimeMap1] # <<>>
                /\ thr'[e].cbH = thr[e].byTime[TimeMap1][1][2]
                /\ thr'[e].byTime[TimeMap2] = thr[e].byTime[TimeMap2]
                /\ ~thr'[e].lastTicksInFirstHalf
          /\ Swaps(e)
             => LET old == thr[e].byTime
                    new == thr'[e].byTime
                    T == thr'[e]
                IN  /\ old[TimeMap1] = <<>>
                    /\ new[TimeMap2] = <<>>
                    /\ \/ new[TimeMap1] = old[TimeMap2]
                       \/ /\ old[TimeMap2] # <<>>
                          /\ new[TimeMap1] = Tail(old[TimeMap2])
                          /\ T.pc = "cb" /\ T.site = "toloop"
                          /\ T.cbH = old[TimeMap2][1][2]
                          /\ old[TimeMap2][1][1] <= T.curTime
                    /\ \A i \in 1 .. Len(new[TimeMap1]) :
                          T.resolversMap[new[TimeMap1][i][2]].timeMap = TimeMap1]_vars

\* the maps were swapped and a request that was entered in timeMap2 waits in
\* timeMap1 for its end time
C27_Witness ==
    \E e \in Engines : \E h \in DOMAIN thr[e].resolversMap :
       /\ thr[e].pc = "wait"
       /\ thr[e].lastTicksInFirstHalf
       /\ thr[e].resolversMap[h].wrapped
       /\ thr[e].resolversMap[h].timeMap = TimeMap1
       /\ thr[e].byTime[TimeMap1] = <<<<thr[e].resolversMap[h].key, h>>>>
       /\ thr[e].byTime[TimeMap2] = <<>>

\* C28: in the timeout loop of a pass that does not swap the maps, the worker
\* completes with TIMEOUT the request of the smallest key of timeMap1 as long
\* as that key is not above the tick read at line 849, and nothing else: when
\* the loop ends every key left in timeMap1 is above that tick, and timeMap2
\* is as it was.
C28_TimeoutLoopExpiresDue ==
    [][\A e \in Engines :
          LET old == thr[e].byTime
              new == thr'[e].byTime
              T == thr'[e]
          IN  /\ (CallbackStarts(e) /\ T.site = "toloop" /\ ~Swaps(e))
                 => /\ T.cbRes = "TIMEOUT"
                    /\ old[TimeMap1] # <<>>
                    /\ T.cbH = old[TimeMap1][1][2]
                    /\ old[TimeMap1][1][1] <= T.curTime
                    /\ \A i \in 1 .. Len(old[TimeMap1]) :
                          old[TimeMap1][1][1] <= old[TimeMap1][i][1]
                    /\ new[TimeMap1] = Tail(old[TimeMap1])
                    /\ new[TimeMap2] = old[TimeMap2]
              /\ (ComputesWait(e) /\ ~Swaps(e))
                 => /\ new = old
                    /\ \A i \in 1 .. Len(new[TimeMap1]) :
                          new[TimeMap1][i][1] > T.curTime]_vars

\* a request is timed out by the timeout loop in a pass without a swap while
\* a request with a later end time stays in timeMap1
C28_Witness ==
    \E e \in Engines :
       /\ thr[e].pc = "cb" /\ thr[e].site = "toloop"
       /\ ~thr[e].lastTicksInFirstHalf
       /\ thr[e].byTime[TimeMap1] # <<>>
       /\ thr[e].byTime[TimeMap1][1][1] > thr[e].curTime

\* the worker of e, in its sending loop, hands the request of h to the socket
\* and goes on with the loop (lines 819-826)
Transmits(e, h) ==
    /\ thr[e].pc = "sendloop" /\ thr'[e].pc = "sendloop"
    /\ h \in DOMAIN thr[e].resolversMap
    /\ h \in DOMAIN thr'[e].resolversMap
    /\ thr[e].resolversMap[h].sendIter # 0
    /\ thr'[e].resolversMap[h].sendIter = 0

\* C29: requests are handed to the socket in the order in which they were
\* appended to the send list.  The request that is sent is the one at the
\* head of the list, which is popped; a request is added at the tail of the
\* list (the entries before it stay, or are left behind by their deleted
\* requests); and when the sending loop is left with the request of the head
\* unsent, that request is still at the head.
C29_SentInQueueOrder ==
    [][\A e \in Engines :
          LET old == thr[e].sendList
              new == thr'[e].sendList
          IN  /\ \A h \in Handles :
                    Transmits(e, h) => old # <<>> /\ old[1] = h /\ new = Tail(old)
              /\ (thr[e].state # "NONE" /\ ~Moved(e) /\ Len(new) > Len(old))
                 => \A i \in 1 .. Len(old) : new[i] \in {old[i], NoHandle}
              /\ \A h \in Handles :
                    (/\ thr[e].pc = "sendloop" /\ thr'[e].pc # "sendloop"
                     /\ old # <<>> /\ old[1] = h
                     /\ h \in DOMAIN thr'[e].resolversMap
                     /\ thr'[e].resolversMap[h].sendIter # 0)
                    => new # <<>> /\ new[1] = h]_vars

\* C30: whenever the worker is about to wait with a send list that is not
\* empty, the socket is waited for writing or a StartSending message is in
\* the worker's queue; and when the sending loop ends with the send list
\* empty the socket is waited for reading only.
C30_SomeoneWaitsToWrite ==
    [][\A e \in Engines :
          /\ (thr'[e].pc = "wait" /\ thr'[e].sendList # <<>>)
             => \/ thr'[e].waitMode = "RW"
                \/ "StartSending" \in thr'[e].queue
          /\ (/\ thr[e].pc = "sendloop" /\ thr[e].sendList = <<>>
              /\ thr'[e].pc \notin {"sendloop", "stopped"}
              /\ thr'[e].state = "RUNNING")
             => thr'[e].waitMode = "READ"]_vars

\* the worker waits for reading only while a request is in the send list:
\* the StartSending message of its Resolve_ts call will wake it
C30_Witness ==
    \E e \in Engines :
       /\ thr[e].pc = "wait"
       /\ thr[e].sendList # <<>>
       /\ thr[e].waitMode = "READ"
       /\ "StartSending" \in thr[e].queue

\* the worker of e finds the socket ready for writing at line 805 and enters
\* the block that sends (not the return to it after a callback of the loop)
EntersSend(e) ==
    /\ thr'[e].pc = "sendloop"
    /\ \/ thr[e].pc = "loop"
       \/ thr[e].pc \in {"cb", "cc_relock"} /\ thr[e].site = "send"

\* C31: when the worker enters the sending block because the socket can be
\* written, the send list is not empty (the ASSERT of line 810), whatever
\* Resolve_ts, Cancel_ts and the StartSending message did before.
C31_SendBlockHasRequests ==
    [][\A e \in Engines : EntersSend(e) => thr'[e].sendList # <<>>]_vars

\* the positions of send list s that hold the request of h
Queued(s, h) == {i \in 1 .. Len(s) : s[i] = h}

\* C32: a request of the registry is in the send list at most once, and its
\* sendIter is sendList.end() (0 in the model) exactly when it is not in the
\* list, also when a reply with its ID and host name comes before it was sent.
C32_QueuedOnce ==
    \A e \in Engines : \A h \in DOMAIN thr[e].resolversMap :
        LET at == Queued(thr[e].sendList, h)
            it == thr[e].resolversMap[h].sendIter
        IN  /\ Cardinality(at) <= 1
            /\ it = 0 <=> at = {}
            /\ it # 0 => at = {it}

\* the worker of e runs one turn of the sending loop, lines 813-834, on the
\* request of h at the head of the send list
SendTurn(e, h) ==
    /\ thr[e].pc = "sendloop"
    /\ thr[e].sendList # <<>>
    /\ thr[e].sendList[1] = h
    /\ thr'[e] # thr[e]
    /\ \A t \in Threads : call'[t].pc = call[t].pc

\* C33: in the sending loop a request without a server address takes the
\* one the thread has found.  When there is none the request is not sent: it
\* is removed, leaving no entry of the send list, and completed with ERROR,
\* and after the callback the worker goes on with the sending loop.
C33_NoServerIsAnError ==
    [][\A e \in Engines :
          /\ \A h \in Handles :
                SendTurn(e, h)
                => IF DnsOf(thr[e], h)
                   THEN Transmits(e, h) => thr'[e].resolversMap[h].dns
                   ELSE /\ thr'[e].pc = "cb" /\ thr'[e].site = "sendloop"
                        /\ thr'[e].cbH = h /\ thr'[e].cbRes = "ERROR"
                        /\ h \notin DOMAIN thr'[e].resolversMap
                        /\ Queued(thr'[e].sendList, h) = {}
                        /\ Dangles(thr'[e].sendList) <= Dangles(thr[e].sendList)
          /\ (/\ thr[e].pc \in {"cb", "cc_relock"} /\ thr[e].site = "sendloop"
              /\ ~Moved(e))
             => thr'[e].pc \in {"cb", "cc_relock", "sendloop"}]_vars

\* the requests of the two time maps of thread object T, with their keys
TimeEntries(T) ==
    LET tm == T.byTime[TimeMap1] \o T.byTime[TimeMap2]
    IN  {tm[i] : i \in 1 .. Len(tm)}

\* the registry of thread object T: every request as it is but for the name
\* of the time map that holds it, which the swap of lines 862-864 changes
Requests(T) ==
    [h \in DOMAIN T.resolversMap |-> [T.resolversMap[h] EXCEPT !.timeMap = 0]]

Sends(e, h) ==
    /\ SendTurn(e, h)
    /\ h \in DOMAIN thr[e].resolversMap
    /\ h \in DOMAIN thr'[e].resolversMap
    /\ DnsOf(thr[e], h)
    /\ thr'[e].pc = "sendloop"
    /\ Len(thr'[e].sendList) = Len(thr[e].sendList) - 1

\* the worker of e is in its loop after the step
StaysInLoop(e) == thr'[e].waitMode # "NONE"

\* C35: a request is handed to the socket at most twice, once as an AAAA and
\* once as an A query.  On every step that leaves the worker in its loop: the
\* record type of a request changes from AAAA to A only; a request that has
\* been handed to the socket is in the send list no more; and a request that
\* was not in the send list is in it after the step only when the step changed
\* its record type from AAAA to A.
C35_SentOncePerRecordType ==
    [][\A e \in Engines :
          StaysInLoop(e) =>
          \A h \in DOMAIN thr[e].resolversMap \cap DOMAIN thr'[e].resolversMap :
              LET old == thr[e].resolversMap[h]
                  new == thr'[e].resolversMap[h]
                  switched == /\ old.recordType = D_DNSRecordAAAA
                              /\ new.recordType = D_DNSRecordA
              IN  /\ new.recordType # old.recordType => switched
                  /\ Sends(e, h) => Queued(thr'[e].sendList, h) = {}
                  /\ (/\ Queued(thr[e].sendList, h) = {}
                      /\ Queued(thr'[e].sendList, h) # {}) => switched]_vars

\* C36: the fallback changes the record type of the request and puts it in
\* the send list, and nothing else of it: on a step that changes the record
\* type of a request from AAAA to A and leaves the worker in its loop, the
\* request keeps its ID, its end time and its owner, the ID map still leads
\* from that ID to it, its time-map entry is still there, and it is in the
\* send list.
C36_FallbackKeepsTheRequest ==
    [][\A e \in Engines :
          StaysInLoop(e) =>
          \A h \in DOMAIN thr[e].resolversMap \cap DOMAIN thr'[e].resolversMap :
              LET old == thr[e].resolversMap[h]
                  new == thr'[e].resolversMap[h]
              IN  (old.recordType = D_DNSRecordAAAA /\ new.recordType = D_DNSRecordA)
                  => /\ new.id = old.id
                     /\ new.key = old.key
                     /\ new.hnr = old.hnr
                     /\ new.id \in DOMAIN thr'[e].idMap
                     /\ thr'[e].idMap[new.id] = h
                     /\ thr[e].idMap[old.id] = h
                     /\ <<old.key, h>> \in TimeEntries(thr[e])
                     /\ <<new.key, h>> \in TimeEntries(thr'[e])
                     /\ Queued(thr'[e].sendList, h) # {}]_vars

\* a request that has fallen back to record A waits in the send list, still
\* under its ID and in a time map
C36_Witness ==
    \E e \in Engines : \E h \in DOMAIN thr[e].resolversMap :
        LET r == thr[e].resolversMap[h]
        IN  /\ r.recordType = D_DNSRecordA
            /\ r.sendIter # 0
            /\ thr[e].idMap[r.id] = h
            /\ <<r.key, h>> \in TimeEntries(thr[e])
            /\ thr[e].pc = "wait"

\* thread t is in Cancel_ts and takes the step that removes the request of
\* its handle (lines 1115-1121)
CancelRemoves(t) ==
    /\ call[t].pc \in {"idle", "c_lock", "c_rm"}
    /\ \/ call'[t].pc = "done" /\ call'[t].res \in {"true", "false"}
       \/ call'[t].pc = "c_wait"
    /\ thread # NoThread

\* the worker of e takes the quit message from its queue and leaves its loop
\* (lines 915-919)
QuitsOnMessage(e) ==
    /\ thr[e].pc = "wait"
    /\ "Quit" \in thr[e].queue
    /\ thr'[e].pc = "stopped"

\* C37: Cancel_ts on one handle leaves the requests of the other handles
\* alone.  The step of a Cancel_ts call that removes the request of its handle
\* leaves every request of another handle in the registry with the same
\* record, under its ID in the ID map, in its time map and, when it was in the
\* send list, in the send list; and the worker does not leave its loop on the
\* quit message of a Cancel_ts call while a request of another handle than
\* that of the call is in its registry.
C37_CancelLeavesOthersAlone ==
    [][/\ \A t \in Threads :
            CancelRemoves(t) =>
            \A h \in DOMAIN thr[thread].resolversMap \ {call'[t].h} :
                LET old == thr[thread]
                    new == thr'[thread]
                IN  /\ h \in DOMAIN new.resolversMap
                    /\ [new.resolversMap[h] EXCEPT !.sendIter = 0]
                         = [old.resolversMap[h] EXCEPT !.sendIter = 0]
                    /\ new.idMap[old.resolversMap[h].id] = h
                    /\ <<old.resolversMap[h].key, h>> \in TimeEntries(new)
                    /\ Cardinality(Queued(new.sendList, h))
                         = Cardinality(Queued(old.sendList, h))
       /\ \A e \in Engines :
            (QuitsOnMessage(e) /\ wire.phase = "quit")
            => DOMAIN thr'[e].resolversMap \subseteq {wire.hnr}]_vars

\* the answer records of a reply of fields f that are whole in its first n
\* bytes and have type ty
WholeAnswers(f, n, ty) ==
    {k \in 1 .. Len(f.recs) : AnswerEnd(f, k) <= n /\ f.recs[k] = ty}

\* the outcome the order of precedence gives a datagram of fields f cut to n
\* bytes, for a request of hostName and recordType
Precedence(f, n, hostName, recordType) ==
    IF n < 12 \/ ~f.qr THEN <<"DNS_ERROR", <<>>>>
    ELSE IF f.rcode = 3 THEN <<"NO_SUCH_HOST", <<>>>>
    ELSE IF f.rcode # 0 THEN <<"DNS_ERROR", <<>>>>
    ELSE IF f.qd # 1 THEN <<"DNS_ERROR", <<>>>>
    ELSE IF Len(f.recs) = 0 THEN <<"NO_SUCH_HOST", <<>>>>
    ELSE IF \/ n < QuestionEnd(f)
            \/ f.qhost # hostName
            \/ f.qtype # recordType
            \/ f.qclass # 1 THEN <<"DNS_ERROR", <<>>>>
    ELSE IF WholeAnswers(f, n, recordType) # {}
    THEN <<"OK", AddressOf(recordType)>>
    ELSE <<"DNS_ERROR", <<>>>>

\* C38: the outcome of the decoder follows the order of precedence: fewer
\* than 12 bytes or no QR bit is DNS_ERROR; then response code 3 is
\* NO_SUCH_HOST and any other code but 0 DNS_ERROR; then a question count
\* other than 1 is DNS_ERROR; then no answer is NO_SUCH_HOST; then a question
\* that is not the one asked (host name, type, class) is DNS_ERROR; then the
\* first answer of the type asked for gives OK with its address, and
\* DNS_ERROR when there is none.
C38_DecoderPrecedence ==
    wire.phase = "decoded"
    => <<wire.out.res, wire.out.addr>>
         = Precedence(wire.f, Len(wire.buf), wire.hostName, wire.recordType)

\* the decoder has passed over an answer of another type and taken the
\* address of the second answer
C38_Witness ==
    /\ wire.phase = "decoded"
    /\ wire.out.res = "OK"
    /\ Len(wire.f.recs) = 2
    /\ wire.f.recs[1] # wire.recordType

\* C39: for every host name Resolve_ts accepts, the empty name and names with
\* a dot in front, at the end or doubled included, SendRequestToDNS writes
\* exactly 12 + hostName.size() + 2 + 4 bytes, the size of the datagram it
\* sends, and no more than the 512 bytes of its buffer (the assertions of
\* lines 221 and 283 hold).
C39_EncoderWritesPacketSize ==
    wire.phase = "sent"
    => LET w == Written(wire.id, wire.hostName, wire.recordType)
       IN  /\ Len(w) = 12 + Len(wire.hostName) + 2 + 4
           /\ Len(w) = PacketSize(wire.hostName)
           /\ Len(wire.query) = Len(w)
           /\ Len(w) <= BufSize

\* the step destroys the thread object of slot p: the worker of the next
\* object has joined it (lines 699-707), or CleanUp has (lines 1141-1147)
Destroys(p) ==
    \/ \E e \in Engines :
          /\ thr[e].pc = "start"
          /\ thr[e].prevThread = p
          /\ thr'[e].state = "NONE"
    \/ /\ thread = p
       /\ thread' = NoThread
       /\ thr'[p].state = "NONE"

\* C40: a thread object that is destroyed, by the worker of the next object
\* after it has joined it or by CleanUp, has an empty send list, registry,
\* ID map and time maps (the assertions of ~LookupThread hold).
C40_DestroyedEmpty ==
    [][\A p \in Engines :
          Destroys(p) => /\ thr[p].sendList = <<>>
                         /\ DOMAIN thr[p].resolversMap = {}
                         /\ thr[p].byTime = <<<<>>, <<>>>>
                         /\ DOMAIN thr[p].idMap = {}]_vars

====
